---- MODULE Spec2Model ----
(***************************************************************************)
(* The safety-governed batch engine of whatsapp-group-manager-pro:         *)
(* storage.service.js (the sessionStats singleton and its three files),    *)
(* whatsapp.service.js (addMembersToGroup and its helpers) and the routes  *)
(* of api.routes.js that drive them.                                       *)
(*                                                                         *)
(* JavaScript runs one callback at a time, so every action below is the    *)
(* code that runs between two awaits of one request (or one whole          *)
(* synchronous handler).  Other requests, the clock and a process crash    *)
(* interleave only at the awaits.                                          *)
(***************************************************************************)
EXTENDS Integers, Sequences, FiniteSets, TLC

\* ------------------------------------------------------------ bounds
\* The clock counts hours.  A day has HoursPerDay hours (24 in the program,
\* scaled down here) and the model stops the clock at MaxTime.
HoursPerDay == 2
MaxTime == 3
\* Number of submit / resume requests one behaviour may start.
MaxRequests == 2
\* Largest value of dailyLimit: its default and the most POST /config sets.
MaxLimit == 2

\* ------------------------------------------------ configuration values
\* Set from the environment at storage.service.js:36-40 (the defaults are
\* 1000, 10 and 1800 s); the model runs with small values.
maxBatchSize == 2
failureThreshold == 3
circuitBreakerTimeout == 1
\* Literals of the code.
maxRetries == 3
BanTripCount == 3

\* ------------------------------------------------------------ values
Callers == {"A", "B"}
Hours == 0 .. (HoursPerDay - 1)
\* circuitBreakerResetTime: null.  new Date(null) is the epoch, which lies
\* before every instant of the clock.
NullTime == 0 - 1
NullGroup == "null"
\* /^\d+@g\.us$/ matches the newer identifiers, /^\d+-\d+@g\.us$/ the
\* traditional ones.
NewerGroupIds == {"120363@g.us"}
TraditionalGroupIds == {"1203-63@g.us"}
GroupIds == NewerGroupIds \cup TraditionalGroupIds
\* Phone numbers as the route accepts them (digits only); DigitCount is the
\* length of the string.
DigitCount(n) == IF n = "x" THEN 5 ELSE 12
\* The requests a client may send: group identifier, numbers, message.
Submissions ==
    { [groupId |-> "120363@g.us", numbers |-> <<"a", "b", "c", "d">>, message |-> ""],
      [groupId |-> "1203-63@g.us", numbers |-> <<"b", "x">>, message |-> "welcome"] }
\* The numbers for which the provider may answer anything; for every other
\* number it confirms the registration and performs the addition at once.
FlakyNumbers == {"b", "x"}

Today(t) == t \div HoursPerDay
HourOf(t) == t % HoursPerDay

\* ------------------------------------------------------------ logger
\* The methods the logger object has.  A call of any other property of it
\* raises TypeError.
loggerMethods == {"info", "success", "warn", "error", "debug", "raw"}
LoggerThrows(method) == method \notin loggerMethods
TypeErrorMsg == <<"logger.warning is not a function">>

VARIABLES
    sessionStats,   \* the in-memory singleton of storage.service.js
    disk,           \* session-stats.json, failed-numbers.json, batches.json
    call,           \* per request: where it stands and its local variables
    now,            \* the clock, in hours
    nreq,           \* requests the clients have left to make
    banStreak,      \* ban-related item failures in a row, up to now
    provider,       \* the provider's side: additions it performed, by day
    probe           \* a single function under examination: its inputs, its result

vars == <<sessionStats, disk, call, now, nreq, banStreak, provider, probe>>

\* No function is under examination.
NoProbe == [op |-> "none"]

\* ------------------------------------------------------------ storage
ZeroCounts == [h \in Hours |-> 0]

\* The module-level initial value of sessionStats, at load time t.
DefaultStats(t) ==
    [ addedToday |-> 0,
      lastDateReset |-> Today(t),
      hourlyAdditionCounts |-> ZeroCounts,
      circuitBreakerTripped |-> FALSE,
      circuitBreakerResetTime |-> NullTime,
      isAddingMembers |-> FALSE,
      userStatus |-> "ready",
      consecutiveFailures |-> 0,
      failedNumbers |-> <<>>,
      currentBatch |-> <<>>,
      currentBatchIndex |-> 0,
      lastGroupId |-> NullGroup,
      dailyLimit |-> MaxLimit,
      hourlyLimit |-> 1,
      minDelay |-> 30,
      maxDelay |-> 90,
      patternVariation |-> TRUE ]

\* A file is <<>> when absent and <<contents>> when present.
NoFiles == [stats |-> <<>>, failed |-> <<>>, batch |-> <<>>]

\* A save that writes the batch file whether or not there is a batch.
saveSessionStatsWithBatch(ss, d) ==
    [ stats |-> << [ addedToday |-> ss.addedToday,
                     lastDateReset |-> ss.lastDateReset,
                     hourlyAdditionCounts |-> ss.hourlyAdditionCounts,
                     circuitBreakerTripped |-> ss.circuitBreakerTripped,
                     circuitBreakerResetTime |-> ss.circuitBreakerResetTime ] >>,
      failed |-> << ss.failedNumbers >>,
      batch |-> << [ currentBatch |-> ss.currentBatch,
                     currentBatchIndex |-> ss.currentBatchIndex,
                     lastGroupId |-> ss.lastGroupId ] >> ]

saveSessionStats(ss, d) ==
    [ stats |-> << [ addedToday |-> ss.addedToday,
                     lastDateReset |-> ss.lastDateReset,
                     hourlyAdditionCounts |-> ss.hourlyAdditionCounts,
                     circuitBreakerTripped |-> ss.circuitBreakerTripped,
                     circuitBreakerResetTime |-> ss.circuitBreakerResetTime ] >>,
      failed |-> << ss.failedNumbers >>,
      batch |-> IF Len(ss.currentBatch) > 0
                THEN << [ currentBatch |-> ss.currentBatch,
                          currentBatchIndex |-> ss.currentBatchIndex,
                          lastGroupId |-> ss.lastGroupId ] >>
                ELSE d.batch ]

\* A load that takes the breaker fields as they are in the file.
loadSessionStatsAsSaved(ss, d, t) ==
    IF d.stats = <<>> THEN ss
    ELSE
      LET raw == d.stats[1]
          stats == IF raw.lastDateReset # Today(t)
                   THEN [raw EXCEPT !.addedToday = 0,
                                    !.lastDateReset = Today(t),
                                    !.hourlyAdditionCounts = ZeroCounts]
                   ELSE raw
      IN [ss EXCEPT !.addedToday = stats.addedToday,
                    !.lastDateReset = stats.lastDateReset,
                    !.hourlyAdditionCounts = stats.hourlyAdditionCounts,
                    !.circuitBreakerTripped = stats.circuitBreakerTripped,
                    !.circuitBreakerResetTime = stats.circuitBreakerResetTime]

loadSessionStats(ss, d, t) ==
    IF d.stats = <<>> THEN ss
    ELSE
      LET raw == d.stats[1]
          stats == IF raw.lastDateReset # Today(t)
                   THEN [raw EXCEPT !.addedToday = 0,
                                    !.lastDateReset = Today(t),
                                    !.hourlyAdditionCounts = ZeroCounts]
                   ELSE raw
          s1 == [ss EXCEPT !.addedToday = stats.addedToday,
                           !.lastDateReset = stats.lastDateReset,
                           !.hourlyAdditionCounts = stats.hourlyAdditionCounts,
                           !.circuitBreakerTripped = stats.circuitBreakerTripped,
                           !.circuitBreakerResetTime = stats.circuitBreakerResetTime]
      IN IF s1.circuitBreakerTripped /\ s1.circuitBreakerResetTime # NullTime
            /\ t > s1.circuitBreakerResetTime
         THEN [s1 EXCEPT !.circuitBreakerTripped = FALSE,
                         !.circuitBreakerResetTime = NullTime,
                         !.consecutiveFailures = 0]
         ELSE s1

loadFailedNumbers(ss, d) ==
    IF d.failed = <<>> THEN ss
    ELSE [ss EXCEPT !.failedNumbers = d.failed[1]]

\* A load that takes the batch and starts it over.
loadBatchDataFromStart(ss, d) ==
    IF d.batch = <<>> THEN ss
    ELSE [ss EXCEPT !.currentBatch = d.batch[1].currentBatch,
                    !.currentBatchIndex = 0,
                    !.lastGroupId = d.batch[1].lastGroupId]

loadBatchData(ss, d) ==
    IF d.batch = <<>> THEN ss
    ELSE
      LET batchData == d.batch[1]
      IN IF Len(batchData.currentBatch) > 0
         THEN [ss EXCEPT !.currentBatch = batchData.currentBatch,
                         !.currentBatchIndex = batchData.currentBatchIndex,
                         !.lastGroupId = batchData.lastGroupId]
         ELSE ss

initializeDataStorage(d, t) ==
    loadBatchData(loadFailedNumbers(loadSessionStats(DefaultStats(t), d, t), d), d)

updateSessionStats(ss, d, updates) ==
    LET s1 == [k \in DOMAIN ss |-> IF k \in DOMAIN updates THEN updates[k] ELSE ss[k]]
    IN [ss |-> s1, disk |-> saveSessionStats(s1, d)]

\* The empty Map.
NoFailedNumbers == <<>>

\* A variant that removes the file and keeps the Map.
clearFailedNumbersFileOnly(ss, d) ==
    [ss |-> ss, disk |-> [d EXCEPT !.failed = <<>>], ret |-> TRUE]

\* clearFailedNumbers: a new Map, the file unlinked if it exists; the
\* function returns true.
clearFailedNumbers(ss, d) ==
    [ss |-> [ss EXCEPT !.failedNumbers = NoFailedNumbers],
     disk |-> [d EXCEPT !.failed = <<>>],
     ret |-> TRUE]

\* getFailedNumbers: the records of the Map, one per key.
getFailedNumbers(ss) ==
    {[number |-> k[1],
      count |-> ss.failedNumbers[k].count,
      firstFailure |-> ss.failedNumbers[k].firstFailure,
      lastFailure |-> ss.failedNumbers[k].lastFailure,
      reason |-> ss.failedNumbers[k].reason] : k \in DOMAIN ss.failedNumbers}

\* ------------------------------------------------------ POST /config
\* The validators of the delays: isInt({min, max}).
DelayRanges == [minDelay |-> 10 .. 300, maxDelay |-> 20 .. 600]

\* A handler that compares the delays only when both are given.
postConfigPairOnly(ss, d, body) ==
    IF \E k \in DOMAIN body : body[k] \notin DelayRanges[k]
    THEN [ss |-> ss, disk |-> d, status |-> 400]
    ELSE
      LET updates == [k \in {x \in DOMAIN body : body[x] # 0} |-> body[k]]
          hasMin == "minDelay" \in DOMAIN updates
          hasMax == "maxDelay" \in DOMAIN updates
      IN IF hasMin /\ hasMax /\ updates.minDelay >= updates.maxDelay
         THEN [ss |-> ss, disk |-> d, status |-> 400]
         ELSE LET u == updateSessionStats(ss, d, updates)
              IN [ss |-> u.ss, disk |-> u.disk, status |-> 200]

\* The handler of POST /config for a body with delays: the validators, the
\* fields that are given, the comparison of the delays, the update.
postConfig(ss, d, body) ==
    IF \E k \in DOMAIN body : body[k] \notin DelayRanges[k]
    THEN [ss |-> ss, disk |-> d, status |-> 400]
    ELSE
      LET updates == [k \in {x \in DOMAIN body : body[x] # 0} |-> body[k]]
          hasMin == "minDelay" \in DOMAIN updates
          hasMax == "maxDelay" \in DOMAIN updates
      IN IF hasMin /\ hasMax /\ updates.minDelay >= updates.maxDelay
         THEN [ss |-> ss, disk |-> d, status |-> 400]
         ELSE IF hasMin /\ ~hasMax /\ updates.minDelay >= ss.maxDelay
         THEN [ss |-> ss, disk |-> d, status |-> 400]
         ELSE IF ~hasMin /\ hasMax /\ ss.minDelay >= updates.maxDelay
         THEN [ss |-> ss, disk |-> d, status |-> 400]
         ELSE LET u == updateSessionStats(ss, d, updates)
              IN [ss |-> u.ss, disk |-> u.disk, status |-> 200]

\* ------------------------------------------------- quota and breaker
checkHourlyLimit(ss, t) ==
    ss.hourlyAdditionCounts[HourOf(t)] >= ss.hourlyLimit

updateHourlyCount(ss, d, t) ==
    LET s1 == [ss EXCEPT !.hourlyAdditionCounts[HourOf(t)] = @ + 1]
    IN [ss |-> s1, disk |-> saveSessionStats(s1, d)]

\* A reset that starts the day's count afresh as well.
resetCircuitBreakerAndCounts(ss, d) ==
    LET s1 == [ss EXCEPT !.circuitBreakerTripped = FALSE,
                         !.circuitBreakerResetTime = NullTime,
                         !.consecutiveFailures = 0,
                         !.addedToday = 0]
    IN [ss |-> s1, disk |-> saveSessionStats(s1, d)]

resetCircuitBreaker(ss, d) ==
    LET s1 == [ss EXCEPT !.circuitBreakerTripped = FALSE,
                         !.circuitBreakerResetTime = NullTime,
                         !.consecutiveFailures = 0]
    IN [ss |-> s1, disk |-> saveSessionStats(s1, d)]

\* A check that reports a tripped breaker as open before its reset time.
checkCircuitBreakerOpen(ss, d, t) ==
    IF ss.circuitBreakerTripped
    THEN IF t > ss.circuitBreakerResetTime
         THEN LET r == resetCircuitBreaker(ss, d)
              IN [ss |-> r.ss, disk |-> r.disk, ret |-> "false"]
         ELSE [ss |-> ss, disk |-> d, ret |-> "false"]
    ELSE IF ss.consecutiveFailures >= failureThreshold
         THEN LET s1 == [ss EXCEPT !.circuitBreakerTripped = TRUE,
                                   !.circuitBreakerResetTime = t + circuitBreakerTimeout]
              IN [ss |-> s1, disk |-> d, ret |-> "throw"]
         ELSE [ss |-> ss, disk |-> d, ret |-> "false"]

\* A check that forgets the failures while the breaker is still tripped.
checkCircuitBreakerForgiving(ss, d, t) ==
    IF ss.circuitBreakerTripped
    THEN IF t > ss.circuitBreakerResetTime
         THEN LET r == resetCircuitBreaker(ss, d)
              IN [ss |-> r.ss, disk |-> r.disk, ret |-> "false"]
         ELSE [ss |-> [ss EXCEPT !.consecutiveFailures = 0], disk |-> d, ret |-> "true"]
    ELSE IF ss.consecutiveFailures >= failureThreshold
         THEN LET s1 == [ss EXCEPT !.circuitBreakerTripped = TRUE,
                                   !.circuitBreakerResetTime = t + circuitBreakerTimeout]
              IN [ss |-> s1, disk |-> d, ret |-> "throw"]
         ELSE [ss |-> ss, disk |-> d, ret |-> "false"]

\* ret is "true" or "false", or "throw" when the call raises TypeError.
checkCircuitBreaker(ss, d, t) ==
    IF ss.circuitBreakerTripped
    THEN IF t > ss.circuitBreakerResetTime
         THEN LET r == resetCircuitBreaker(ss, d)
              IN [ss |-> r.ss, disk |-> r.disk, ret |-> "false"]
         ELSE [ss |-> ss, disk |-> d, ret |-> "true"]
    ELSE IF ss.consecutiveFailures >= failureThreshold
         THEN LET s1 == [ss EXCEPT !.circuitBreakerTripped = TRUE,
                                   !.circuitBreakerResetTime = t + circuitBreakerTimeout]
              IN IF LoggerThrows("warning")
                 THEN [ss |-> s1, disk |-> d, ret |-> "throw"]
                 ELSE [ss |-> s1, disk |-> saveSessionStats(s1, d), ret |-> "true"]
         ELSE [ss |-> ss, disk |-> d, ret |-> "false"]

\* The key of failedNumbers for a number: `${stripped}@c.us`.
FormattedNumber(n) == <<n, "@c.us">>

\* A variant that replaces the record on every failure.
updateFailedNumberReplacing(ss, d, formattedNumber, reason, t) ==
    LET old == ss.failedNumbers
        s1 == [ss EXCEPT !.failedNumbers =
                 [k \in (DOMAIN old) \cup {formattedNumber} |->
                    IF k = formattedNumber
                    THEN [count |-> 1, firstFailure |-> t, lastFailure |-> t,
                          reason |-> reason]
                    ELSE old[k]]]
    IN [ss |-> s1, disk |-> saveSessionStats(s1, d)]

updateFailedNumber(ss, d, formattedNumber, reason, t) ==
    LET old == ss.failedNumbers
        rec == IF formattedNumber \in DOMAIN old
               THEN [old[formattedNumber] EXCEPT !.count = @ + 1,
                                                 !.lastFailure = t,
                                                 !.reason = reason]
               ELSE [count |-> 1, firstFailure |-> t, lastFailure |-> t,
                     reason |-> reason]
        s1 == [ss EXCEPT !.failedNumbers =
                 [k \in (DOMAIN old) \cup {formattedNumber} |->
                    IF k = formattedNumber THEN rec ELSE old[k]]]
    IN [ss |-> s1, disk |-> saveSessionStats(s1, d)]

\* ------------------------------------------------------ smart delay
\* A multiplier is a fraction n/d; Math.random() is a multiple of
\* 1/RandomGrain below 1.
RandomGrain == 1000
Times(m, n, d) == [n |-> m.n * n, d |-> m.d * d]

\* The draws of Math.random() in one call: the base delay above minDelay
\* (its least, its greatest and two values between), whether the pattern is
\* broken and how, and the extra of a longer break.
PatternBreaks == {"none", "longer", "shorter"}
RandomDraws(ss) ==
    [base : {0, 1, (ss.maxDelay - ss.minDelay) \div 2, ss.maxDelay - ss.minDelay},
     break : PatternBreaks,
     extra : {0, RandomGrain \div 2, RandomGrain - 1}]

\* The multiplier of getSmartDelay with the pattern break replaced by shrink/10
\* for a shorter interval.
delayMultiplier(ss, hour, rnd, shrink) ==
    LET m0 == [n |-> 1, d |-> 1]
        m1 == IF hour >= 1 /\ hour <= 4 THEN Times(m0, 3, 2) ELSE m0
        \* dailyProgress > 0.7, and 1 + (dailyProgress - 0.7)
        m2 == IF 10 * ss.addedToday > 7 * ss.dailyLimit
              THEN Times(m1, 3 * ss.dailyLimit + 10 * ss.addedToday, 10 * ss.dailyLimit)
              ELSE m1
        m3 == IF ss.consecutiveFailures > 0
              THEN Times(m2, 10 + ss.consecutiveFailures, 10)
              ELSE m2
    IN IF ss.patternVariation /\ rnd.break # "none"
       THEN IF rnd.break = "longer"
            THEN Times(m3, 3 * RandomGrain + 2 * rnd.extra, 2 * RandomGrain)
            ELSE Times(m3, shrink, 10)
       ELSE m3

\* A variant whose shorter interval is half the delay.
getSmartDelayHalving(ss, d, hour, rnd) ==
    LET m == delayMultiplier(ss, hour, rnd, 5)
    IN [ss |-> ss, disk |-> d,
        ret |-> (((ss.minDelay + rnd.base) * m.n) \div m.d) * 1000]

\* A variant that counts its calls as additions and saves.
getSmartDelayCounting(ss, d, hour, rnd) ==
    LET m == delayMultiplier(ss, hour, rnd, 7)
        s1 == [ss EXCEPT !.addedToday = @ + 1]
    IN [ss |-> s1, disk |-> saveSessionStats(s1, d),
        ret |-> (((ss.minDelay + rnd.base) * m.n) \div m.d) * 1000]

\* getSmartDelay, in milliseconds; it reads sessionStats and the clock and
\* writes nothing.
getSmartDelay(ss, d, hour, rnd) ==
    LET m == delayMultiplier(ss, hour, rnd, 7)
    IN [ss |-> ss, disk |-> d,
        ret |-> (((ss.minDelay + rnd.base) * m.n) \div m.d) * 1000]

\* ------------------------------------------- the per-item primitive
\* An error message is a sequence of text fragments; a message includes a
\* keyword when one of its fragments is that keyword.
ContextError == "Execution context was destroyed"
ProviderErrors == {ContextError, "not-authorized"}
BanKeywords == {"not-authorized", "forbidden", "denied", "blocked", "spam",
                "limit", "banned"}
Includes(msg, words) == \E k \in DOMAIN msg : msg[k] \in words
isBanRelated(msg) == Includes(msg, BanKeywords)

validatePhoneNumber(n) ==
    IF DigitCount(n) < 10 \/ DigitCount(n) > 15
    THEN [isValid |-> FALSE, reason |-> <<"Invalid length. Must be 10-15 digits.">>]
    ELSE [isValid |-> TRUE, reason |-> <<"Valid number">>]

\* The answers the provider gives to the attempts 1..maxRetries of a call.
Attempts == 1 .. maxRetries
RegScripts == [Attempts -> {"true", "false"} \cup ProviderErrors]
ContactScripts == [Attempts -> {"ok", ContextError}]
AddScripts == [Attempts -> {"ok"} \cup ProviderErrors]

\* while (retries < maxRetries) around client.isRegisteredUser.
RECURSIVE RegisteredLoop(_, _)
RegisteredLoop(resp, retries) ==
    IF retries >= maxRetries
    THEN [threw |-> FALSE, error |-> <<>>, exists |-> FALSE, calls |-> retries]
    ELSE LET r == resp[retries + 1]
         IN IF r \in {"true", "false"}
            THEN [threw |-> FALSE, error |-> <<>>, exists |-> (r = "true"),
                  calls |-> retries + 1]
            ELSE IF r = ContextError /\ LoggerThrows("warning")
            THEN [threw |-> TRUE, error |-> TypeErrorMsg, exists |-> FALSE,
                  calls |-> retries + 1]
            ELSE IF retries + 1 >= maxRetries
            THEN [threw |-> TRUE,
                  error |-> <<"Failed to check if number is registered: ", r>>,
                  exists |-> FALSE, calls |-> retries + 1]
            ELSE RegisteredLoop(resp, retries + 1)

\* while (retries < maxRetries) around client.getContactById.
RECURSIVE ContactLoop(_, _)
ContactLoop(resp, retries) ==
    IF retries >= maxRetries
    THEN [threw |-> FALSE, error |-> <<>>, calls |-> retries]
    ELSE LET r == resp[retries + 1]
         IN IF r = "ok"
            THEN [threw |-> FALSE, error |-> <<>>, calls |-> retries + 1]
            ELSE IF r = ContextError /\ LoggerThrows("warning")
            THEN [threw |-> TRUE, error |-> TypeErrorMsg, calls |-> retries + 1]
            ELSE IF retries + 1 >= maxRetries
            THEN IF LoggerThrows("warning")
                 THEN [threw |-> TRUE, error |-> TypeErrorMsg, calls |-> retries + 1]
                 ELSE [threw |-> FALSE, error |-> <<>>, calls |-> retries + 1]
            ELSE ContactLoop(resp, retries + 1)

\* while (retries < maxRetries) around client.addParticipants.
RECURSIVE AddLoop(_, _)
AddLoop(resp, retries) ==
    IF retries >= maxRetries
    THEN [threw |-> FALSE, error |-> <<>>, added |-> FALSE, calls |-> retries]
    ELSE LET r == resp[retries + 1]
         IN IF r = "ok"
            THEN [threw |-> FALSE, error |-> <<>>, added |-> TRUE,
                  calls |-> retries + 1]
            ELSE IF r = ContextError /\ LoggerThrows("warning")
            THEN [threw |-> TRUE, error |-> TypeErrorMsg, added |-> FALSE,
                  calls |-> retries + 1]
            ELSE IF retries + 1 >= maxRetries
            THEN [threw |-> TRUE, error |-> <<r>>, added |-> FALSE,
                  calls |-> retries + 1]
            ELSE AddLoop(resp, retries + 1)

\* A variant that goes on to the add whatever the registration check said.
saveContactThenAddUnchecked(number, regResp, contactResp, addResp) ==
    LET validation == validatePhoneNumber(number)
        reg == RegisteredLoop(regResp, 0)
        contact == ContactLoop(contactResp, 0)
        add == AddLoop(addResp, 0)
        Fail(msg, rc, cc, ac) ==
            [ok |-> FALSE, error |-> msg, regCalls |-> rc, contactCalls |-> cc,
             addCalls |-> ac]
    IN IF ~validation.isValid THEN Fail(validation.reason, 0, 0, 0)
       ELSE IF reg.threw THEN Fail(reg.error, reg.calls, 0, 0)
       ELSE IF contact.threw THEN Fail(contact.error, reg.calls, contact.calls, 0)
       ELSE IF add.threw
       THEN Fail(add.error, reg.calls, contact.calls, add.calls)
       ELSE [ok |-> add.added, error |-> <<>>, regCalls |-> reg.calls,
             contactCalls |-> contact.calls, addCalls |-> add.calls]

\* ok: the promise resolved; otherwise error is the message it rejected with.
saveContactThenAdd(number, regResp, contactResp, addResp) ==
    LET validation == validatePhoneNumber(number)
        reg == RegisteredLoop(regResp, 0)
        contact == ContactLoop(contactResp, 0)
        add == AddLoop(addResp, 0)
        Fail(msg, rc, cc, ac) ==
            [ok |-> FALSE, error |-> msg, regCalls |-> rc, contactCalls |-> cc,
             addCalls |-> ac]
    IN IF ~validation.isValid THEN Fail(validation.reason, 0, 0, 0)
       ELSE IF reg.threw THEN Fail(reg.error, reg.calls, 0, 0)
       ELSE IF ~reg.exists
       THEN Fail(<<"Number not registered on WhatsApp">>, reg.calls, 0, 0)
       ELSE IF contact.threw THEN Fail(contact.error, reg.calls, contact.calls, 0)
       ELSE IF add.threw
       THEN Fail(add.error, reg.calls, contact.calls, add.calls)
       ELSE [ok |-> add.added, error |-> <<>>, regCalls |-> reg.calls,
             contactCalls |-> contact.calls, addCalls |-> add.calls]

\* Every way one call of saveContactThenAdd can end, over all provider
\* answers.
ValidNumberOutcomes ==
    { saveContactThenAdd("a", r, c, a) :
        r \in RegScripts, c \in ContactScripts, a \in AddScripts }
InvalidNumberOutcomes ==
    { saveContactThenAdd("x", r, c, a) :
        r \in RegScripts, c \in ContactScripts, a \in AddScripts }
ReliableOutcomes ==
    { saveContactThenAdd("a", [k \in Attempts |-> "true"],
                         [k \in Attempts |-> "ok"], [k \in Attempts |-> "ok"]) }
ItemOutcomes(number) ==
    IF ~validatePhoneNumber(number).isValid THEN InvalidNumberOutcomes
    ELSE IF number \in FlakyNumbers THEN ValidNumberOutcomes
    ELSE ReliableOutcomes

\* ------------------------------------------------ addMembersToGroup
\* A request's local state.  pc is the await it is suspended at; i is the
\* loop index (0-based, as in the code); ret names the result it returned.
\* attempted (the numbers saveContactThenAdd was called for), startIndex
\* (the index the loop began at) and limit0 (dailyLimit at admission, 0 once
\* a configuration update has changed it) record what the request did; req
\* tells the requests of a client apart.
EmptyResults == [success |-> TRUE, added |-> 0, failed |-> 0, skipped |-> 0,
                 details |-> <<>>]
RejectResults == [EmptyResults EXCEPT !.success = FALSE]
IdleCall ==
    [ pc |-> "idle", kind |-> "none", groupId |-> NullGroup, numbers |-> <<>>,
      message |-> "", i |-> 0, until |-> 0, results |-> EmptyResults,
      ret |-> "none", attempted |-> <<>>, startIndex |-> 0, limit0 |-> 0,
      req |-> 0 ]

\* The request has responded: its locals are gone, its result stays.
Returned(l, ret, results) ==
    [IdleCall EXCEPT !.kind = l.kind, !.req = l.req, !.ret = ret,
                     !.results = results]

\* A result entry that is not counted when the item was skipped.
DetailSkipUncounted(results, number, status, reason) ==
    LET r1 == [results EXCEPT !.details =
                 Append(@, [number |-> number, status |-> status, reason |-> reason])]
    IN CASE status = "added" -> [r1 EXCEPT !.added = @ + 1]
         [] status = "failed" -> [r1 EXCEPT !.failed = @ + 1]
         [] OTHER -> r1

Detail(results, number, status, reason) ==
    LET r1 == [results EXCEPT !.details =
                 Append(@, [number |-> number, status |-> status, reason |-> reason])]
    IN CASE status = "added" -> [r1 EXCEPT !.added = @ + 1]
         [] status = "failed" -> [r1 EXCEPT !.failed = @ + 1]
         [] OTHER -> [r1 EXCEPT !.skipped = @ + 1]

\* A finally block that saves without releasing the flag.
FinallyKeepsFlag(ss, d, l, ret, results) ==
    [ss |-> ss, disk |-> saveSessionStats(ss, d),
     call |-> Returned(l, ret, results)]

\* finally { isAddingMembers = false; userStatus = 'ready'; saveSessionStats() }
Finally(ss, d, l, ret, results) ==
    LET s1 == [ss EXCEPT !.isAddingMembers = FALSE, !.userStatus = "ready"]
    IN [ss |-> s1, disk |-> saveSessionStats(s1, d),
        call |-> Returned(l, ret, results)]

\* catch (err) of the try around the loop: a partial result, then finally.
Unexpected(ss, d, l) ==
    Finally(ss, d, l, "Unexpected", [l.results EXCEPT !.success = FALSE])

\* A completion that leaves the batch record as it is.
CompleteKeepsBatch(ss, d, l) ==
    Finally(ss, d, l, "Completed", l.results)

\* Clean up batch data after successful completion, return results.
Complete(ss, d, l) ==
    IF Len(ss.currentBatch) > 0
       /\ ss.currentBatchIndex >= Len(ss.currentBatch) - 1
    THEN Finally([ss EXCEPT !.currentBatch = <<>>, !.currentBatchIndex = 0,
                            !.lastGroupId = NullGroup],
                 [d EXCEPT !.batch = <<>>], l, "Completed", l.results)
    ELSE Finally(ss, d, l, "Completed", l.results)

\* A greeting that is sent whether or not a member was added.
AfterLoopGreetsAnyway(ss, d, l) ==
    IF l.message # ""
    THEN [ss |-> ss, disk |-> d, call |-> [l EXCEPT !.pc = "message"]]
    ELSE Complete(ss, d, l)

\* After the for loop: the greeting message, if any.
AfterLoop(ss, d, l) ==
    IF l.message # "" /\ l.results.added > 0
    THEN [ss |-> ss, disk |-> d, call |-> [l EXCEPT !.pc = "message"]]
    ELSE Complete(ss, d, l)

RECURSIVE LoopFrom(_, _, _, _)
RECURSIVE ItemChecks(_, _, _, _)

\* A loop head that saves the cursor as the index after the current item.
LoopFromSavesNext(ss, d, l, t) ==
    IF l.i >= Len(l.numbers) THEN AfterLoop(ss, d, l)
    ELSE LET s1 == [ss EXCEPT !.currentBatchIndex = l.i + 1]
             d1 == saveSessionStats(s1, d)
         IN IF l.i > 0 /\ l.i % maxBatchSize = 0
            THEN [ss |-> s1, disk |-> d1, call |-> [l EXCEPT !.pc = "cooldown"]]
            ELSE ItemChecks(s1, d1, l, t)

\* One pass of the for loop from its head, with l.i the index: runs until
\* the request suspends at an await or returns.
LoopFrom(ss, d, l, t) ==
    IF l.i >= Len(l.numbers) THEN AfterLoop(ss, d, l)
    ELSE LET s1 == [ss EXCEPT !.currentBatchIndex = l.i]
             d1 == saveSessionStats(s1, d)
         IN IF l.i > 0 /\ l.i % maxBatchSize = 0
            THEN [ss |-> s1, disk |-> d1, call |-> [l EXCEPT !.pc = "cooldown"]]
            ELSE ItemChecks(s1, d1, l, t)

\* A daily re-check that lets one addition too many through.
ItemChecksLate(ss, d, l, t) ==
    LET number == l.numbers[l.i + 1]
    IN IF ss.addedToday > ss.dailyLimit
       THEN LoopFrom(ss, d,
                [l EXCEPT !.results = Detail(@, number, "skipped", <<"Daily limit reached">>),
                          !.i = @ + 1], t)
       ELSE IF checkHourlyLimit(ss, t)
       THEN Unexpected(ss, d, [l EXCEPT !.results =
                         Detail(@, number, "skipped", <<"Hourly limit reached">>)])
       ELSE [ss |-> ss, disk |-> d,
             call |-> [l EXCEPT !.pc = "item", !.attempted = Append(@, number)]]

\* Re-checks that pass over a number with a failure record.
ItemChecksSkipsFailed(ss, d, l, t) ==
    LET number == l.numbers[l.i + 1]
    IN IF ss.addedToday >= ss.dailyLimit
       THEN LoopFrom(ss, d,
                [l EXCEPT !.results = Detail(@, number, "skipped", <<"Daily limit reached">>),
                          !.i = @ + 1], t)
       ELSE IF FormattedNumber(number) \in DOMAIN ss.failedNumbers
       THEN LoopFrom(ss, d,
                [l EXCEPT !.results = Detail(@, number, "skipped", <<"Failed before">>),
                          !.i = @ + 1], t)
       ELSE IF checkHourlyLimit(ss, t)
       THEN LET l1 == [l EXCEPT !.results =
                         Detail(@, number, "skipped", <<"Hourly limit reached">>)]
            IN IF LoggerThrows("warning")
               THEN Unexpected(ss, d, l1)
               ELSE [ss |-> ss, disk |-> d,
                     call |-> [l1 EXCEPT !.pc = "hourlyWait", !.until = t + 1]]
       ELSE [ss |-> ss, disk |-> d,
             call |-> [l EXCEPT !.pc = "item", !.attempted = Append(@, number)]]

\* The daily and hourly re-checks of an iteration, up to saveContactThenAdd.
ItemChecks(ss, d, l, t) ==
    LET number == l.numbers[l.i + 1]
    IN IF ss.addedToday >= ss.dailyLimit
       THEN LoopFrom(ss, d,
                [l EXCEPT !.results = Detail(@, number, "skipped", <<"Daily limit reached">>),
                          !.i = @ + 1], t)
       ELSE IF checkHourlyLimit(ss, t)
       THEN LET l1 == [l EXCEPT !.results =
                         Detail(@, number, "skipped", <<"Hourly limit reached">>)]
            IN IF LoggerThrows("warning")
               THEN Unexpected(ss, d, l1)
               ELSE [ss |-> ss, disk |-> d,
                     call |-> [l1 EXCEPT !.pc = "hourlyWait", !.until = t + 1]]
       ELSE [ss |-> ss, disk |-> d,
             call |-> [l EXCEPT !.pc = "item", !.attempted = Append(@, number)]]

\* The breaker check that ends an iteration (line 764), then the next one.
AfterItem(ss, d, l, t) ==
    LET cb == checkCircuitBreaker(ss, d, t)
    IN CASE cb.ret = "throw" -> Unexpected(cb.ss, cb.disk, l)
         [] cb.ret = "true" ->
              Finally(cb.ss, saveSessionStats(cb.ss, cb.disk), l, "FailPause",
                      [l.results EXCEPT !.success = FALSE])
         [] OTHER -> LoopFrom(cb.ss, cb.disk, [l EXCEPT !.i = @ + 1], t)

\* saveContactThenAdd resolved: counters, result entry, smart delay.
ItemAdded(ss, d, l, t) ==
    LET number == l.numbers[l.i + 1]
        u == updateHourlyCount([ss EXCEPT !.addedToday = @ + 1], d, t)
        s1 == [u.ss EXCEPT !.consecutiveFailures = 0]
        d1 == saveSessionStats(s1, u.disk)
        l1 == [l EXCEPT !.results =
                 Detail(@, number, "added", <<"Successfully saved contact and added to group">>)]
    IN IF l.i < Len(l.numbers) - 1
       THEN [ss |-> s1, disk |-> d1, call |-> [l1 EXCEPT !.pc = "delay"]]
       ELSE AfterItem(s1, d1, l1, t)

\* The break after a failure, in seconds: Math.min(60 + failures * 30, 300).
failureDelay(ss) ==
    IF 60 + ss.consecutiveFailures * 30 < 300
    THEN 60 + ss.consecutiveFailures * 30
    ELSE 300

\* A failure that ends the batch whatever the error.
ItemFailedAborts(ss, d, l, t, errorMsg) ==
    LET number == l.numbers[l.i + 1]
        u == updateFailedNumber([ss EXCEPT !.consecutiveFailures = @ + 1], d,
                                FormattedNumber(number), errorMsg, t)
    IN Unexpected(u.ss, u.disk,
                  [l EXCEPT !.results = Detail(@, number, "failed", errorMsg)])

\* saveContactThenAdd rejected with errorMsg: the catch at line 697.
ItemFailed(ss, d, l, t, errorMsg) ==
    LET number == l.numbers[l.i + 1]
        u == updateFailedNumber([ss EXCEPT !.consecutiveFailures = @ + 1], d,
                                FormattedNumber(number), errorMsg, t)
        l1 == [l EXCEPT !.results = Detail(@, number, "failed", errorMsg)]
    IN IF isBanRelated(errorMsg)
       THEN IF LoggerThrows("warning")
            THEN Unexpected(u.ss, u.disk, l1)
            ELSE [ss |-> u.ss, disk |-> u.disk, call |-> [l1 EXCEPT !.pc = "banBreak"]]
       ELSE [ss |-> u.ss, disk |-> u.disk, call |-> [l1 EXCEPT !.pc = "failureBreak"]]

\* After the extended break of a ban-related failure (lines 736-760).
AfterBanBreak(ss, d, l, t) ==
    IF ss.consecutiveFailures >= BanTripCount
    THEN LET s1 == [ss EXCEPT !.circuitBreakerTripped = TRUE,
                              !.circuitBreakerResetTime = t + circuitBreakerTimeout]
         IN IF LoggerThrows("warning")
            THEN Unexpected(s1, d, l)
            ELSE Finally(s1, saveSessionStats(s1, d), l, "BanPause",
                         [l.results EXCEPT !.success = FALSE])
    ELSE [ss |-> ss, disk |-> d, call |-> [l EXCEPT !.pc = "failureBreak"]]

\* After the wait for the next hour (lines 664-668).
AfterHourlyWait(ss, d, l, t) ==
    LoopFrom([ss EXCEPT !.hourlyAdditionCounts[HourOf(t)] = 0], d,
             [l EXCEPT !.i = @ + 1, !.until = 0], t)

\* An admission that always starts the batch from its first item.
AdmitFromStart(ss, d, l, t) ==
    LET s1 == [ss EXCEPT !.isAddingMembers = TRUE, !.userStatus = "adding",
                         !.currentBatch = l.numbers,
                         !.currentBatchIndex = 0]
    IN LoopFrom(s1, d, [l EXCEPT !.i = 0, !.startIndex = 0,
                                 !.limit0 = s1.dailyLimit,
                                 !.results = EmptyResults], t)

\* Lines 581-606: the request is admitted.
Admit(ss, d, l, t) ==
    LET resuming == Len(ss.currentBatch) > 0 /\ ss.lastGroupId = l.groupId
        s1 == [ss EXCEPT !.isAddingMembers = TRUE, !.userStatus = "adding",
                         !.currentBatch = l.numbers,
                         !.currentBatchIndex = IF resuming THEN @ ELSE 0]
    IN LoopFrom(s1, d, [l EXCEPT !.i = s1.currentBatchIndex,
                                 !.startIndex = s1.currentBatchIndex,
                                 !.limit0 = s1.dailyLimit,
                                 !.results = EmptyResults], t)

\* Admission checks with the daily quota tested before the hourly one.
AdmissionChecksDailyFirst(ss, d, l, t) ==
    LET newDay == ss.lastDateReset # Today(t)
        s1 == IF newDay
              THEN [ss EXCEPT !.addedToday = 0,
                              !.hourlyAdditionCounts = ZeroCounts,
                              !.lastDateReset = Today(t)]
              ELSE ss
        d1 == IF newDay THEN saveSessionStats(s1, d) ELSE d
        cb == checkCircuitBreaker(s1, d1, t)
        Reject(ret) == [ss |-> cb.ss, disk |-> cb.disk,
                        call |-> Returned(l, ret, RejectResults)]
    IN IF cb.ret = "throw" THEN Reject("Exception")
       ELSE IF cb.ret = "true" THEN Reject("Protection")
       ELSE IF cb.ss.dailyLimit - cb.ss.addedToday <= 0 THEN Reject("DailyLimit")
       ELSE IF checkHourlyLimit(cb.ss, t) THEN Reject("HourlyLimit")
       ELSE [ss |-> cb.ss, disk |-> cb.disk, call |-> [l EXCEPT !.pc = "verify"]]

\* Lines 501-535: the day rollover and the breaker, hourly and daily checks
\* of a call, up to the await of the group verification.  A "throw" of
\* checkCircuitBreaker is outside every try: the promise rejects (ret
\* "Exception").
AdmissionChecks(ss, d, l, t) ==
    LET newDay == ss.lastDateReset # Today(t)
        s1 == IF newDay
              THEN [ss EXCEPT !.addedToday = 0,
                              !.hourlyAdditionCounts = ZeroCounts,
                              !.lastDateReset = Today(t)]
              ELSE ss
        d1 == IF newDay THEN saveSessionStats(s1, d) ELSE d
        cb == checkCircuitBreaker(s1, d1, t)
        Reject(ret) == [ss |-> cb.ss, disk |-> cb.disk,
                        call |-> Returned(l, ret, RejectResults)]
    IN IF cb.ret = "throw" THEN Reject("Exception")
       ELSE IF cb.ret = "true" THEN Reject("Protection")
       ELSE IF checkHourlyLimit(cb.ss, t) THEN Reject("HourlyLimit")
       ELSE IF cb.ss.dailyLimit - cb.ss.addedToday <= 0 THEN Reject("DailyLimit")
       ELSE [ss |-> cb.ss, disk |-> cb.disk, call |-> [l EXCEPT !.pc = "verify"]]

\* An admission without the test of isAddingMembers.
AdmissionUnguarded(ss, d, l, t) ==
    AdmissionChecks(ss, d, l, t)

\* Lines 494-535: from the call to the await of the group verification.
Admission(ss, d, l, t) ==
    IF ss.isAddingMembers
    THEN [ss |-> ss, disk |-> d, call |-> Returned(l, "AlreadyAdding", RejectResults)]
    ELSE AdmissionChecks(ss, d, l, t)

\* Lines 545-579: the verification call has settled.  outcome is "ok",
\* "notGroup" (chat.isGroup false) or "error" (the call rejected).
Verified(ss, d, l, t, outcome) ==
    IF l.groupId \in NewerGroupIds
    THEN IF outcome = "error"
         THEN LET s1 == [ss EXCEPT !.consecutiveFailures = @ + 1]
              IN IF LoggerThrows("warning")
                 THEN [ss |-> s1, disk |-> d,
                       call |-> Returned(l, "Exception", RejectResults)]
                 ELSE Admit(s1, d, l, t)
         ELSE Admit(ss, d, l, t)
    ELSE CASE outcome = "ok" -> Admit(ss, d, l, t)
           [] outcome = "notGroup" ->
                [ss |-> ss, disk |-> d, call |-> Returned(l, "NotGroup", RejectResults)]
           [] OTHER ->
                [ss |-> [ss EXCEPT !.consecutiveFailures = @ + 1], disk |-> d,
                 call |-> Returned(l, "InvalidGroup", RejectResults)]

\* ------------------------------------------------------------ actions
\* client.addParticipants takes effect at the provider at time t.
ProviderAdds(pr, t) ==
    IF pr.day = Today(t) THEN [pr EXCEPT !.added = @ + 1]
    ELSE [day |-> Today(t), added |-> 1]

\* The provider call for an item of c's request is in flight.
InFlight(c) == call[c].pc = "item"

Apply(c, out) ==
    /\ sessionStats' = out.ss
    /\ disk' = out.disk
    /\ call' = [call EXCEPT ![c] = out.call]

\* POST /add-members with a group identifier: processGroupAddition calls
\* addMembersToGroup, which runs to its first await.
Submit(c, groupId, numbers, message) ==
    /\ call[c].pc = "idle"
    /\ nreq > 0
    /\ Apply(c, Admission(sessionStats, disk,
                 [IdleCall EXCEPT !.kind = "submit", !.req = nreq,
                                  !.groupId = groupId,
                                  !.numbers = numbers, !.message = message], now))
    /\ nreq' = nreq - 1
    /\ UNCHANGED <<now, banStreak, provider, probe>>

\* POST /resume-batch.
ResumeBatch(c) ==
    /\ call[c].pc = "idle"
    /\ nreq > 0
    /\ LET l == [IdleCall EXCEPT !.kind = "resume", !.req = nreq,
                                 !.groupId = sessionStats.lastGroupId,
                                 !.numbers = sessionStats.currentBatch]
       IN IF sessionStats.isAddingMembers
          THEN Apply(c, [ss |-> sessionStats, disk |-> disk,
                         call |-> Returned(l, "AlreadyAdding", RejectResults)])
          ELSE IF Len(sessionStats.currentBatch) = 0
                  \/ sessionStats.lastGroupId = NullGroup
          THEN Apply(c, [ss |-> sessionStats, disk |-> disk,
                         call |-> Returned(l, "NoBatch", RejectResults)])
          ELSE Apply(c, Admission(sessionStats, disk, l, now))
    /\ nreq' = nreq - 1
    /\ UNCHANGED <<now, banStreak, provider, probe>>

\* client.getParticipants / client.getChatById settles.
VerifyDone(c) ==
    /\ call[c].pc = "verify"
    /\ \E outcome \in {"ok", "notGroup", "error"} :
          /\ call[c].groupId \in NewerGroupIds => outcome # "notGroup"
          /\ Apply(c, Verified(sessionStats, disk, call[c], now, outcome))
    /\ UNCHANGED <<now, nreq, banStreak, provider, probe>>

\* saveContactThenAdd settles.
ItemDone(c) ==
    /\ call[c].pc = "item"
    /\ \E out \in ItemOutcomes(call[c].numbers[call[c].i + 1]) :
          /\ Apply(c, IF out.ok
                      THEN ItemAdded(sessionStats, disk, call[c], now)
                      ELSE ItemFailed(sessionStats, disk, call[c], now, out.error))
          /\ banStreak' = IF out.ok \/ ~isBanRelated(out.error) THEN 0
                          ELSE IF banStreak < BanTripCount THEN banStreak + 1
                          ELSE banStreak
          /\ provider' = IF out.ok THEN ProviderAdds(provider, now) ELSE provider
    /\ UNCHANGED <<now, nreq, probe>>

\* A setTimeout the request awaits fires.
TimerFires(c) ==
    /\ call[c].pc \in {"cooldown", "delay", "failureBreak", "banBreak", "hourlyWait"}
    /\ now >= call[c].until
    /\ Apply(c, CASE call[c].pc = "cooldown" ->
                       ItemChecks(sessionStats, disk, call[c], now)
                  [] call[c].pc = "hourlyWait" ->
                       AfterHourlyWait(sessionStats, disk, call[c], now)
                  [] call[c].pc = "banBreak" ->
                       AfterBanBreak(sessionStats, disk, call[c], now)
                  [] OTHER -> AfterItem(sessionStats, disk, call[c], now))
    /\ UNCHANGED <<now, nreq, banStreak, provider, probe>>

\* client.sendMessage settles (either way the batch completes).
MessageDone(c) ==
    /\ call[c].pc = "message"
    /\ Apply(c, Complete(sessionStats, disk, call[c]))
    /\ UNCHANGED <<now, nreq, banStreak, provider, probe>>

\* An hour passes.
Tick ==
    /\ now < MaxTime
    /\ now' = now + 1
    /\ UNCHANGED <<sessionStats, disk, call, nreq, banStreak, provider, probe>>

\* POST /config: each field of the body that is present and not 0 is copied
\* into the settings, which are then saved.
Config(body) ==
    /\ LET updates == [k \in {x \in DOMAIN body : body[x] > 0} |-> body[k]]
           u == updateSessionStats(sessionStats, disk, updates)
       IN /\ sessionStats' = u.ss
          /\ disk' = u.disk
          /\ sessionStats' # sessionStats
          /\ call' = [c \in Callers |->
                        IF u.ss.dailyLimit # sessionStats.dailyLimit
                        THEN [call[c] EXCEPT !.limit0 = 0] ELSE call[c]]
    /\ UNCHANGED <<now, nreq, banStreak, provider, probe>>

\* GET /status: the lazy reset of the breaker.
Status ==
    /\ sessionStats.circuitBreakerTripped
    /\ sessionStats.circuitBreakerResetTime # NullTime
    /\ now > sessionStats.circuitBreakerResetTime
    /\ LET u == updateSessionStats(sessionStats, disk,
                   [circuitBreakerTripped |-> FALSE,
                    circuitBreakerResetTime |-> NullTime,
                    consecutiveFailures |-> 0])
       IN sessionStats' = u.ss /\ disk' = u.disk
    /\ UNCHANGED <<call, now, nreq, banStreak, provider, probe>>

\* POST /reset-protection.
ResetProtection ==
    /\ LET u == resetCircuitBreaker(sessionStats, disk)
       IN sessionStats' = u.ss /\ disk' = u.disk
    /\ sessionStats' # sessionStats
    /\ UNCHANGED <<call, now, nreq, banStreak, provider, probe>>

\* The process dies and is started again: memory is rebuilt from the files.
\* A provider call in flight at that moment may or may not have taken
\* effect at the provider.
CrashRestart ==
    /\ sessionStats' = initializeDataStorage(disk, now)
    /\ call' = [c \in Callers |-> IdleCall]
    /\ provider' \in {provider} \cup
                     {ProviderAdds(provider, now) : c \in {x \in Callers : InFlight(x)}}
    /\ UNCHANGED <<disk, now, nreq, banStreak, probe>>

\* ------------------------------------------------------ specifications
\* The files found at the first start: none, or a batch record left by an
\* interrupted run.
InitialDisks ==
    { NoFiles } \cup
    { [NoFiles EXCEPT !.batch = << [ currentBatch |-> <<"a", "b", "c", "d">>,
                                     currentBatchIndex |-> 2,
                                     lastGroupId |-> g ] >>] : g \in GroupIds }

Init ==
    /\ now = 0
    /\ nreq = MaxRequests
    /\ banStreak = 0
    /\ provider = [day |-> 0, added |-> 0]
    /\ probe = NoProbe
    /\ disk \in InitialDisks
    /\ sessionStats = initializeDataStorage(disk, 0)
    /\ call = [c \in Callers |-> IdleCall]

\* The bodies POST /config is sent: the daily limit only.
ConfigBodies == [{"dailyLimit"} -> 0 .. MaxLimit]

Environment ==
    \/ Tick
    \/ \E body \in ConfigBodies : Config(body)
    \/ Status
    \/ ResetProtection
    \/ CrashRestart

Request(c) ==
    \/ \E r \in Submissions : Submit(c, r.groupId, r.numbers, r.message)
    \/ ResumeBatch(c)
    \/ VerifyDone(c)
    \/ ItemDone(c)
    \/ TimerFires(c)
    \/ MessageDone(c)

\* One client that waits for each response before its next request.
Next == Request("A") \/ Environment
Spec == Init /\ [][Next]_vars

\* Two clients whose requests overlap.
RaceNext == (\E c \in Callers : Request(c)) \/ Tick
RaceSpec == Init /\ [][RaceNext]_vars

\* One client alone with the service from a first start without files, for
\* one request more.
SoloInit ==
    /\ now = 0
    /\ nreq = MaxRequests + 1
    /\ banStreak = 0
    /\ provider = [day |-> 0, added |-> 0]
    /\ probe = NoProbe
    /\ disk = NoFiles
    /\ sessionStats = initializeDataStorage(disk, 0)
    /\ call = [c \in Callers |-> IdleCall]
SoloNext == Request("A") \/ Tick
SoloSpec == SoloInit /\ [][SoloNext]_vars

\* One client alone with the service, with status polls and restarts, for
\* the same number of requests.
RecoveryNext == Request("A") \/ Tick \/ Status \/ CrashRestart
RecoverySpec == SoloInit /\ [][RecoveryNext]_vars

\* The service at rest, with one function under examination.
AtRest(pr) ==
    /\ now = 0
    /\ nreq = 0
    /\ banStreak = 0
    /\ provider = [day |-> 0, added |-> 0]
    /\ disk = NoFiles
    /\ sessionStats = initializeDataStorage(NoFiles, 0)
    /\ call = [c \in Callers |-> IdleCall]
    /\ probe = pr

\* saveContactThenAdd alone: a number and the answers the provider will
\* give to the attempts of each phase, then the call.
RetryInit ==
    \E n \in {"b", "x"}, r \in RegScripts, c \in ContactScripts, a \in AddScripts :
       AtRest([op |-> "saveContactThenAdd", done |-> FALSE, number |-> n,
               reg |-> r, contact |-> c, add |-> a,
               out |-> saveContactThenAdd(n, r, c, a)])
SaveContactThenAddReturns ==
    /\ probe.op = "saveContactThenAdd"
    /\ ~probe.done
    /\ probe' = [probe EXCEPT !.done = TRUE]
    /\ UNCHANGED <<sessionStats, disk, call, now, nreq, banStreak, provider>>
RetryNext == SaveContactThenAddReturns
RetrySpec == RetryInit /\ [][RetryNext]_vars

\* POST /clear-failed-numbers.
ClearFailedNumbers ==
    /\ LET u == clearFailedNumbers(sessionStats, disk)
       IN sessionStats' = u.ss /\ disk' = u.disk
    /\ probe' = IF probe.op = "failures" THEN [probe EXCEPT !.log = <<>>] ELSE probe
    /\ UNCHANGED <<call, now, nreq, banStreak, provider>>

\* getSmartDelay alone, called once in a state with some progress through
\* the day's quota, some consecutive failures, pattern variation on or off,
\* at some hour of the day.
DelayHours == {0, 1, 4, 5}
DelayInit ==
    \E a \in 0 .. MaxLimit, dl \in 1 .. MaxLimit, cf \in 0 .. failureThreshold - 1,
       pv \in BOOLEAN, h \in DelayHours :
       /\ now = 0 /\ nreq = 0 /\ banStreak = 0
       /\ provider = [day |-> 0, added |-> 0]
       /\ call = [c \in Callers |-> IdleCall]
       /\ LET u == updateSessionStats(initializeDataStorage(NoFiles, 0), NoFiles,
                                      [addedToday |-> a, dailyLimit |-> dl,
                                       consecutiveFailures |-> cf,
                                       patternVariation |-> pv])
          IN sessionStats = u.ss /\ disk = u.disk
       /\ probe = [op |-> "getSmartDelay", done |-> FALSE, hour |-> h,
                   rnd |-> [base |-> 0, break |-> "none", extra |-> 0], ret |-> 0]
GetSmartDelay ==
    /\ probe.op = "getSmartDelay" /\ ~probe.done
    /\ \E rnd \in RandomDraws(sessionStats) :
          LET u == getSmartDelay(sessionStats, disk, probe.hour, rnd)
          IN /\ sessionStats' = u.ss
             /\ disk' = u.disk
             /\ probe' = [probe EXCEPT !.done = TRUE, !.rnd = rnd, !.ret = u.ret]
    /\ UNCHANGED <<call, now, nreq, banStreak, provider>>
DelayNext == GetSmartDelay
DelaySpec == DelayInit /\ [][DelayNext]_vars

\* Two services side by side, started from files that differ in the
\* failures file only: the second one (in probe) has failure records, the
\* first has none.  One client sends both the same requests, the provider
\* answers both alike and their clocks agree.
FailureRecord == [count |-> 2, firstFailure |-> 0, lastFailure |-> 0,
                  reason |-> <<"not-authorized">>]
FailureMaps ==
    {[k \in {FormattedNumber(n) : n \in ns} |-> FailureRecord] :
        ns \in {{"a"}, {"b", "x"}, {"a", "b", "c", "d", "x"}}}
TwinDisk(F) == [saveSessionStats(DefaultStats(0), NoFiles) EXCEPT !.failed = <<F>>]
TwinInit ==
    /\ now = 0
    /\ nreq = MaxRequests + 1
    /\ banStreak = 0
    /\ provider = [day |-> 0, added |-> 0]
    /\ disk = TwinDisk(NoFailedNumbers)
    /\ sessionStats = initializeDataStorage(disk, 0)
    /\ call = [c \in Callers |-> IdleCall]
    /\ \E F \in FailureMaps :
          probe = [op |-> "twin", ss |-> initializeDataStorage(TwinDisk(F), 0),
                   disk |-> TwinDisk(F), call |-> IdleCall]
TwinApply(out, twin) ==
    /\ Apply("A", out)
    /\ probe' = [probe EXCEPT !.ss = twin.ss, !.disk = twin.disk, !.call = twin.call]
TwinSubmit ==
    /\ probe.op = "twin"
    /\ call["A"].pc = "idle"
    /\ nreq > 0
    /\ \E r \in Submissions :
          LET l == [IdleCall EXCEPT !.kind = "submit", !.req = nreq,
                                    !.groupId = r.groupId,
                                    !.numbers = r.numbers, !.message = r.message]
          IN TwinApply(Admission(sessionStats, disk, l, now),
                       Admission(probe.ss, probe.disk, l, now))
    /\ nreq' = nreq - 1
    /\ UNCHANGED <<now, banStreak, provider>>
TwinResumeBatch ==
    /\ probe.op = "twin"
    /\ call["A"].pc = "idle"
    /\ nreq > 0
    /\ LET resume(ss, d) ==
              LET l == [IdleCall EXCEPT !.kind = "resume", !.req = nreq,
                                        !.groupId = ss.lastGroupId,
                                        !.numbers = ss.currentBatch]
              IN IF ss.isAddingMembers
                 THEN [ss |-> ss, disk |-> d,
                       call |-> Returned(l, "AlreadyAdding", RejectResults)]
                 ELSE IF Len(ss.currentBatch) = 0 \/ ss.lastGroupId = NullGroup
                 THEN [ss |-> ss, disk |-> d,
                       call |-> Returned(l, "NoBatch", RejectResults)]
                 ELSE Admission(ss, d, l, now)
       IN TwinApply(resume(sessionStats, disk), resume(probe.ss, probe.disk))
    /\ nreq' = nreq - 1
    /\ UNCHANGED <<now, banStreak, provider>>
TwinVerifyDone ==
    /\ probe.op = "twin"
    /\ call["A"].pc = "verify"
    /\ \E outcome \in {"ok", "notGroup", "error"} :
          /\ call["A"].groupId \in NewerGroupIds => outcome # "notGroup"
          /\ TwinApply(Verified(sessionStats, disk, call["A"], now, outcome),
                       Verified(probe.ss, probe.disk, probe.call, now, outcome))
    /\ UNCHANGED <<now, nreq, banStreak, provider>>
TwinItemDone ==
    /\ probe.op = "twin"
    /\ call["A"].pc = "item"
    /\ \E out \in ItemOutcomes(call["A"].numbers[call["A"].i + 1]) :
          /\ IF out.ok
             THEN TwinApply(ItemAdded(sessionStats, disk, call["A"], now),
                            ItemAdded(probe.ss, probe.disk, probe.call, now))
             ELSE TwinApply(ItemFailed(sessionStats, disk, call["A"], now, out.error),
                            ItemFailed(probe.ss, probe.disk, probe.call, now, out.error))
          /\ banStreak' = IF out.ok \/ ~isBanRelated(out.error) THEN 0
                          ELSE IF banStreak < BanTripCount THEN banStreak + 1
                          ELSE banStreak
          /\ provider' = IF out.ok THEN ProviderAdds(provider, now) ELSE provider
    /\ UNCHANGED <<now, nreq>>
TwinTimerFires ==
    /\ probe.op = "twin"
    /\ call["A"].pc \in {"cooldown", "delay", "failureBreak", "banBreak", "hourlyWait"}
    /\ now >= call["A"].until
    /\ LET resumed(ss, d, l) ==
              CASE l.pc = "cooldown" -> ItemChecks(ss, d, l, now)
                [] l.pc = "hourlyWait" -> AfterHourlyWait(ss, d, l, now)
                [] l.pc = "banBreak" -> AfterBanBreak(ss, d, l, now)
                [] OTHER -> AfterItem(ss, d, l, now)
       IN TwinApply(resumed(sessionStats, disk, call["A"]),
                    resumed(probe.ss, probe.disk, probe.call))
    /\ UNCHANGED <<now, nreq, banStreak, provider>>
TwinMessageDone ==
    /\ probe.op = "twin"
    /\ call["A"].pc = "message"
    /\ TwinApply(Complete(sessionStats, disk, call["A"]),
                 Complete(probe.ss, probe.disk, probe.call))
    /\ UNCHANGED <<now, nreq, banStreak, provider>>
TwinNext ==
    \/ TwinSubmit \/ TwinResumeBatch \/ TwinVerifyDone \/ TwinItemDone
    \/ TwinTimerFires \/ TwinMessageDone \/ Tick
TwinSpec == TwinInit /\ [][TwinNext]_vars

\* POST /config alone, with bodies that give one delay or both, in and out
\* of the validators' ranges.
MinDelays == {5, 10, 30, 90, 300}
MaxDelays == {20, 30, 90, 600, 700}
DelayBodies ==
    {[minDelay |-> a] : a \in MinDelays}
    \cup {[maxDelay |-> b] : b \in MaxDelays}
    \cup {[minDelay |-> a, maxDelay |-> b] : a \in MinDelays, b \in MaxDelays}
ConfigInit == AtRest([op |-> "config", body |-> <<>>, status |-> 0])
PostConfig ==
    /\ probe.op = "config"
    /\ \E body \in DelayBodies :
          LET u == postConfig(sessionStats, disk, body)
          IN /\ sessionStats' = u.ss
             /\ disk' = u.disk
             /\ probe' = [probe EXCEPT !.body = body, !.status = u.status]
    /\ UNCHANGED <<call, now, nreq, banStreak, provider>>
ConfigNext == PostConfig
ConfigSpec == ConfigInit /\ [][ConfigNext]_vars

\* One client alone with the service while the failures are cleared at any
\* moment.
ClearNext == Request("A") \/ Tick \/ ClearFailedNumbers
ClearSpec == SoloInit /\ [][ClearNext]_vars

\* updateFailedNumber alone: the failures recorded since the last clear are
\* kept in probe.log, at most MaxRecords of them.
MaxRecords == 3
FailureReasons == {<<"Number not registered on WhatsApp">>, <<"not-authorized">>}
TrackerInit == AtRest([op |-> "failures", log |-> <<>>])
RecordFailure ==
    /\ Len(probe.log) < MaxRecords
    /\ \E n \in FlakyNumbers, reason \in FailureReasons :
          /\ LET u == updateFailedNumber(sessionStats, disk, FormattedNumber(n),
                                         reason, now)
             IN sessionStats' = u.ss /\ disk' = u.disk
          /\ probe' = [probe EXCEPT !.log =
                         Append(@, [id |-> FormattedNumber(n), reason |-> reason,
                                    at |-> now])]
    /\ UNCHANGED <<call, now, nreq, banStreak, provider>>
TrackerNext == RecordFailure \/ ClearFailedNumbers \/ Tick \/ CrashRestart
TrackerSpec == TrackerInit /\ [][TrackerNext]_vars

\* ------------------------------------------------------------ properties
\* The awaits inside the try block: the request is admitted and processing.
LoopPcs == {"cooldown", "item", "delay", "failureBreak", "banBreak",
            "hourlyWait", "message"}
Running(c) == call[c].pc \in LoopPcs

\* C1: at most one batch runs at a time: under every interleaving of
\* overlapping add-members / resume-batch requests, two requests are never
\* both admitted and processing items.
C1_AtMostOneBatch ==
    \A c1, c2 \in Callers : Running(c1) /\ Running(c2) => c1 = c2

\* C2: isAddingMembers is released on every way an admitted batch ends: the
\* flag is set only while a request is inside the loop, so once the result
\* is returned the flag is false and no request is answered "already
\* adding" while no batch is executing.
C2_ReleasedOnAllPaths ==
    /\ sessionStats.isAddingMembers => \E c \in Callers : Running(c)
    /\ \A c \in Callers :
          call[c].ret = "AlreadyAdding" => \E c2 \in Callers : Running(c2)

\* An admitted batch has ended in the catch block with a partial result, and
\* the flag is released.
C2_Witness ==
    /\ call["A"].pc = "idle"
    /\ call["A"].ret = "Unexpected"
    /\ call["A"].results.failed > 0
    /\ ~sessionStats.isAddingMembers

\* Both quotas have room for what has been recorded.
QuotaRespected ==
    /\ sessionStats.addedToday <= sessionStats.dailyLimit
    /\ \A h \in Hours :
          sessionStats.hourlyAdditionCounts[h] <= sessionStats.hourlyLimit

\* C3: immediately after every recorded addition, whatever submissions,
\* resumes, configuration updates and hour or day changes came before,
\* addedToday <= dailyLimit and every hour slot is at most hourlyLimit.
C3_QuotaInvariant ==
    [][sessionStats'.addedToday > sessionStats.addedToday => QuotaRespected']_vars

\* What a check of the breaker should answer in the current state.
BreakerBlocks ==
    IF sessionStats.circuitBreakerTripped
    THEN ~(now > sessionStats.circuitBreakerResetTime)
    ELSE sessionStats.consecutiveFailures >= failureThreshold

\* The step is a new request of c getting as far as the breaker check.
AdmissionCheck(c) ==
    /\ call'[c].req # call[c].req
    /\ call'[c].kind # "none"
    /\ call'[c].ret \notin {"AlreadyAdding", "NoBatch"}

\* The step ends a pause of c's request inside the loop with the breaker
\* check of line 764.
LoopCheck(c) ==
    /\ call[c].pc \in {"delay", "failureBreak"}
    /\ call'[c].req = call[c].req
    /\ call'[c] # call[c]

\* C4: once consecutiveFailures has reached failureThreshold the next check
\* of the breaker answers "blocking" (the request is rejected or paused for
\* protection), and a check answers "not blocking" again only when now is
\* past the reset time: every check answers exactly BreakerBlocks.
C4_BreakerTiming ==
    [][\A c \in Callers :
         AdmissionCheck(c) \/ LoopCheck(c) =>
            (BreakerBlocks <=> call'[c].ret \in {"Protection", "FailPause"})]_vars

\* C5: with the persisted batch record [a, b, c, d] at cursor 2, an admitted
\* resume-batch makes add attempts for c and d only, and when its loop has
\* run to the end the record is deleted: items empty, cursor 0, no batch
\* file.
C5_Resumability ==
    \A c \in Callers :
       call[c].kind = "resume" /\ call[c].req = MaxRequests =>
          /\ \A k \in DOMAIN call[c].attempted :
                call[c].attempted[k] \in {"c", "d"}
          /\ call[c].ret = "Completed" =>
                /\ sessionStats.currentBatch = <<>>
                /\ sessionStats.currentBatchIndex = 0
                /\ disk.batch = <<>>

\* The resumed batch has completed with c and d added, one after the other.
C5_Witness ==
    /\ call["A"].kind = "resume"
    /\ call["A"].req = MaxRequests
    /\ call["A"].ret = "Completed"
    /\ Len(call["A"].results.details) = 2
    /\ call["A"].results.details[1].number = "c"
    /\ call["A"].results.details[1].status = "added"
    /\ call["A"].results.details[2].number = "d"
    /\ call["A"].results.details[2].status = "added"
    /\ disk.batch = <<>>

\* The results a batch stops with before its end.
PauseRets == {"Unexpected", "FailPause", "BanPause"}

\* C6: after a batch submitted through add-members has stopped with the
\* breaker tripped, a resume-batch made once the reset time has passed is
\* not answered "No interrupted batch found".
C6_PausedReenterable ==
    [][\A c \in Callers :
         /\ call[c].kind = "submit"
         /\ call[c].ret \in PauseRets
         /\ Len(sessionStats.currentBatch) > 0
         /\ sessionStats.circuitBreakerTripped
         /\ now > sessionStats.circuitBreakerResetTime
         /\ call'[c].req # call[c].req
         /\ call'[c].kind = "resume"
         => call'[c].ret # "NoBatch"]_vars

\* The last entry of the results is a failure with a ban-indicative reason.
EndsWithBanFailure(results) ==
    /\ Len(results.details) > 0
    /\ results.details[Len(results.details)].status = "failed"
    /\ isBanRelated(results.details[Len(results.details)].reason)

\* C7: when the third consecutive item has failed with a ban-indicative
\* error, the request returns with the breaker tripped and a reset time
\* set, with success = false, and with the persisted cursor at the index
\* after the failed item.
C7_BanCascade ==
    [][\A c \in Callers :
         /\ call[c].pc # "idle"
         /\ call'[c].pc = "idle"
         /\ call'[c].req = call[c].req
         /\ banStreak' = BanTripCount
         /\ EndsWithBanFailure(call'[c].results)
         => /\ sessionStats'.circuitBreakerTripped
            /\ sessionStats'.circuitBreakerResetTime # NullTime
            /\ ~call'[c].results.success
            /\ sessionStats'.currentBatchIndex = call[c].i + 1]_vars

\* C8: a fresh batch of N items, submitted with addedToday = 0 and
\* dailyLimit = L < N and meeting neither a failure nor the hourly limit,
\* returns added = L and skipped = N - L: the first L items are added, the
\* last N - L are skipped in their order, and no add attempt is made for a
\* skipped item.
C8_DailyLimitScenario ==
    [][\A c \in Callers :
         LET L == call[c].limit0
             N == Len(call[c].numbers)
             r == call'[c].results
         IN /\ call[c].pc # "idle"
            /\ call'[c].pc = "idle"
            /\ call'[c].req = call[c].req
            /\ call'[c].ret = "Completed"
            /\ call[c].kind = "submit"
            /\ call[c].startIndex = 0
            /\ L > 0
            /\ N > L
            /\ r.failed = 0
            /\ sessionStats'.addedToday = r.added
            => /\ r.added = L
               /\ r.skipped = N - L
               /\ Len(r.details) = N
               /\ \A k \in 1 .. N :
                     /\ r.details[k].number = call[c].numbers[k]
                     /\ r.details[k].status = IF k <= L THEN "added" ELSE "skipped"
               /\ call[c].attempted = SubSeq(call[c].numbers, 1, L)]_vars

\* A batch of four has completed under a daily limit of MaxLimit: that many
\* added, the rest skipped.
C8_Witness ==
    /\ call["A"].kind = "submit"
    /\ call["A"].ret = "Completed"
    /\ sessionStats.dailyLimit = MaxLimit
    /\ sessionStats.addedToday = MaxLimit
    /\ call["A"].results.added = MaxLimit
    /\ call["A"].results.skipped = 4 - MaxLimit
    /\ call["A"].results.failed = 0
    /\ call["A"].results.details[4].status = "skipped"

\* The step ran a quota check for c: the admission check of a new request,
\* or the re-check of an iteration, which either starts an add attempt or
\* skips the item.
QuotaChecked(c) ==
    \/ /\ call'[c].req # call[c].req
       /\ \/ call'[c].pc = "verify"
          \/ call'[c].ret \in {"HourlyLimit", "DailyLimit"}
    \/ /\ call'[c].req = call[c].req
       /\ \/ call'[c].pc = "item" /\ call'[c].attempted # call[c].attempted
          \/ call'[c].results.skipped > call[c].results.skipped

\* C9: every quota check, at admission or inside a running batch, is made
\* against the counters of the current day: when the date of the last reset
\* is not today the check first resets addedToday and the hour slots, so
\* after any check lastDateReset is today.
C9_DateRollover ==
    [][\A c \in Callers :
         QuotaChecked(c) => sessionStats'.lastDateReset = Today(now)]_vars

\* C10: every request is answered with a result object: none ends with an
\* exception reaching the caller, and an unexpected error inside the loop
\* gives a partial result with success = false.
C10_StructuredResult ==
    \A c \in Callers :
       /\ call[c].ret # "Exception"
       /\ call[c].ret = "Unexpected" => ~call[c].results.success

\* The breaker is tripped and its reset time has not passed.
Blocking(ss, t) ==
    ss.circuitBreakerTripped /\ t <= ss.circuitBreakerResetTime

\* The step starts an add attempt of c's request.
AttemptBegins(c) ==
    /\ call'[c].pc = "item"
    /\ call'[c].attempted # call[c].attempted

\* C11: while the breaker is blocking no request is admitted and no add
\* attempt is started; a batch during which the breaker trips stops before
\* its next item and returns the per-item details accumulated so far.
C11_BreakerGate ==
    [][\A c \in Callers :
         /\ call'[c].req # call[c].req /\ Blocking(sessionStats, now)
               => call'[c].pc = "idle" /\ call'[c].attempted = <<>>
         /\ AttemptBegins(c) => ~Blocking(sessionStats', now)
         /\ /\ Running(c)
            /\ ~sessionStats.circuitBreakerTripped
            /\ sessionStats'.circuitBreakerTripped
            => /\ call'[c].pc = "idle"
               /\ call'[c].req = call[c].req
               /\ ~call'[c].results.success
               /\ call'[c].results.details = call[c].results.details]_vars

\* A request made while the breaker was blocking has been rejected with the
\* protection-mode result, and the breaker is still blocking.
C11_Witness ==
    /\ call["A"].ret = "Protection"
    /\ Blocking(sessionStats, now)

\* C12: the cursor is persisted as i before the provider is called for item
\* i: while item i is in flight the batch file holds the batch with a
\* cursor of at most i, and a restart at that point reloads the batch with
\* a cursor of at most i, so no item is passed over by the restart.
C12_AtLeastOnce ==
    [][\A c \in Callers :
         InFlight(c) =>
            /\ disk.batch # <<>>
            /\ disk.batch[1].currentBatch = call[c].numbers
            /\ disk.batch[1].currentBatchIndex <= call[c].i
            /\ call'[c] = IdleCall =>
                  /\ sessionStats'.currentBatch = call[c].numbers
                  /\ sessionStats'.currentBatchIndex <= call[c].i]_vars

\* The second item of a batch is in flight and the batch file has the
\* cursor on it.
C12_Witness ==
    /\ InFlight("A")
    /\ call["A"].i = 1
    /\ disk.batch # <<>>
    /\ disk.batch[1].currentBatchIndex = 1
    /\ disk.batch[1].currentBatch = call["A"].numbers

\* C13: the counters survive a restart without losing additions: whenever
\* the provider has performed additions today, addedToday (also as reloaded
\* from the stats file) is at least their number, and the provider never
\* performs more additions in a day than the largest daily limit.
C13_RestartKeepsQuota ==
    provider.day = Today(now) =>
       /\ sessionStats.addedToday >= provider.added
       /\ provider.added <= MaxLimit

\* C14: items are handled strictly in list order and one at a time: an add
\* attempt begins only when no add attempt is in flight anywhere, it is for
\* the number under the cursor, the cursor of a request never moves back,
\* every number attempted earlier by the request lies before the cursor,
\* and no two requests have an add attempt in flight at the same moment.
C14_ListOrder ==
    [][\A c \in Callers :
         /\ InFlight(c)' => \A d \in Callers \ {c} : ~InFlight(d)'
         /\ AttemptBegins(c) =>
               /\ \A d \in Callers : ~InFlight(d)
               /\ call'[c].attempted[Len(call'[c].attempted)] =
                     call'[c].numbers[call'[c].i + 1]
               /\ call'[c].req = call[c].req =>
                     /\ call'[c].i >= call[c].i
                     /\ call'[c].attempted =
                           Append(call[c].attempted, call'[c].numbers[call'[c].i + 1])
                     /\ \A k \in DOMAIN call[c].attempted :
                           \E j \in 1 .. call'[c].i :
                              call[c].numbers[j] = call[c].attempted[k]]_vars

\* C15: a request (add-members or resume-batch) made while isAddingMembers
\* is true is answered at once with the "already adding" result: it does
\* not wait, starts no add attempt, and leaves the memory state, the files
\* and the provider as they were.
C15_BusyRejected ==
    [][\A c \in Callers :
         call'[c].req # call[c].req /\ sessionStats.isAddingMembers =>
            /\ call'[c].pc = "idle"
            /\ call'[c].ret = "AlreadyAdding"
            /\ call'[c].results = RejectResults
            /\ call'[c].attempted = <<>>
            /\ sessionStats' = sessionStats
            /\ disk' = disk
            /\ provider' = provider]_vars

\* A request of B has been answered "already adding" while the batch of A
\* is running.
C15_Witness ==
    /\ call["B"].ret = "AlreadyAdding"
    /\ Running("A")
    /\ sessionStats.isAddingMembers

\* The step settles the group verification of c's request.
VerifySettles(c) ==
    /\ call[c].pc = "verify"
    /\ call'[c].req = call[c].req
    /\ call'[c].pc # "verify"

\* The results with which a request is turned away at the verification.
VerifyRejections == {"NotGroup", "InvalidGroup", "Exception"}

\* C16: a failed verification of a traditional (hyphenated) group id turns
\* the request away with no add attempt, isAddingMembers untouched and
\* consecutiveFailures one higher; the verification of a newer id never
\* turns the request away: failed or not, the batch is admitted, and a
\* failure only raises consecutiveFailures by one.
C16_VerifyAsymmetry ==
    [][\A c \in Callers :
         VerifySettles(c) =>
            /\ call[c].groupId \in TraditionalGroupIds
                  /\ call'[c].ret = "InvalidGroup" =>
                     /\ call'[c].pc = "idle"
                     /\ call'[c].attempted = <<>>
                     /\ sessionStats'.isAddingMembers = sessionStats.isAddingMembers
                     /\ sessionStats'.consecutiveFailures =
                           sessionStats.consecutiveFailures + 1
            /\ call[c].groupId \in NewerGroupIds =>
                  /\ call'[c].ret \notin VerifyRejections
                  /\ sessionStats'.consecutiveFailures \in
                        {sessionStats.consecutiveFailures,
                         sessionStats.consecutiveFailures + 1}]_vars

\* C17: a manual reset, from any state and whatever is left of the timeout,
\* leaves the breaker untripped with no reset time and consecutiveFailures
\* at 0, in memory and in the stats file, and leaves addedToday, the hourly
\* counts, the batch items, the cursor and the running requests as they
\* were.
C17_ManualReset ==
    [][ResetProtection =>
          /\ ~sessionStats'.circuitBreakerTripped
          /\ sessionStats'.circuitBreakerResetTime = NullTime
          /\ sessionStats'.consecutiveFailures = 0
          /\ ~disk'.stats[1].circuitBreakerTripped
          /\ disk'.stats[1].circuitBreakerResetTime = NullTime
          /\ sessionStats'.addedToday = sessionStats.addedToday
          /\ sessionStats'.hourlyAdditionCounts = sessionStats.hourlyAdditionCounts
          /\ sessionStats'.currentBatch = sessionStats.currentBatch
          /\ sessionStats'.currentBatchIndex = sessionStats.currentBatchIndex
          /\ call' = call]_vars

\* The batch was ended by the breaker tripping on the failure of x at the
\* present time, so the timeout has not run out, and yet the breaker is
\* untripped and consecutiveFailures is 0: it has been reset by hand.
C17_Witness ==
    /\ call["A"].ret = "Unexpected"
    /\ FormattedNumber("x") \in DOMAIN sessionStats.failedNumbers
    /\ sessionStats.failedNumbers[FormattedNumber("x")].lastFailure = now
    /\ sessionStats.currentBatch # <<>>
    /\ ~sessionStats.circuitBreakerTripped
    /\ sessionStats.circuitBreakerResetTime = NullTime
    /\ sessionStats.consecutiveFailures = 0

\* The reset time of a tripped breaker has passed.
Expired(tripped, resetTime, t) ==
    tripped /\ resetTime # NullTime /\ t > resetTime

\* The step makes a check of the breaker that finds its reset time passed:
\* the check of an admission or of the loop, a status poll, or the load of
\* the stats file at a start.
ExpiredCheck ==
    \/ /\ Expired(sessionStats.circuitBreakerTripped,
                  sessionStats.circuitBreakerResetTime, now)
       /\ \/ \E c \in Callers : AdmissionCheck(c) \/ LoopCheck(c)
          \/ Status
    \/ /\ CrashRestart
       /\ disk.stats # <<>>
       /\ Expired(disk.stats[1].circuitBreakerTripped,
                  disk.stats[1].circuitBreakerResetTime, now)

\* C18: a tripped breaker always has a reset time, in memory and in the
\* stats file (so also in every state loaded from it), and a check that
\* finds the reset time passed leaves the breaker untripped with no reset
\* time and does not answer "protection".
C18_BreakerState ==
    /\ [](sessionStats.circuitBreakerTripped
             => sessionStats.circuitBreakerResetTime # NullTime)
    /\ [](disk.stats # <<>> /\ disk.stats[1].circuitBreakerTripped
             => disk.stats[1].circuitBreakerResetTime # NullTime)
    /\ [][ExpiredCheck =>
             /\ ~sessionStats'.circuitBreakerTripped
             /\ sessionStats'.circuitBreakerResetTime = NullTime
             /\ \A c \in Callers :
                   call'[c] # call[c] =>
                      call'[c].ret \notin {"Protection", "FailPause"}]_vars

\* The stats file holds a tripped breaker whose reset time has passed, and
\* the state loaded from it has the breaker untripped with no reset time.
C18_Witness ==
    /\ disk.stats # <<>>
    /\ Expired(disk.stats[1].circuitBreakerTripped,
               disk.stats[1].circuitBreakerResetTime, now)
    /\ ~sessionStats.circuitBreakerTripped
    /\ sessionStats.circuitBreakerResetTime = NullTime

ItemSucceeds(c) ==
    /\ call[c].pc = "item"
    /\ call'[c].req = call[c].req
    /\ call'[c].results.added = call[c].results.added + 1

\* The step records a failed item of c's request.
ItemFails(c) ==
    /\ call[c].pc = "item"
    /\ call'[c].req = call[c].req
    /\ call'[c].results.failed = call[c].results.failed + 1

\* The step resets the breaker: by hand, or lazily in a check that finds
\* the reset time passed.
BreakerResetStep == ResetProtection \/ ExpiredCheck

\* consecutiveFailures is never negative, is 0 after a successful add and
\* one higher after a failed item.
FailureCounting ==
    /\ [](sessionStats.consecutiveFailures >= 0)
    /\ [][\A c \in Callers :
            /\ ItemSucceeds(c) => sessionStats'.consecutiveFailures = 0
            /\ ItemFails(c) => sessionStats'.consecutiveFailures =
                                  sessionStats.consecutiveFailures + 1]_vars

\* C20: consecutiveFailures is never negative, is 0 immediately
\* after every successful add, increases by exactly one for each failed
\* item, and goes down only by a successful add or by a breaker reset
\* (lazy or manual).
C20_ResetOnlyByAddOrBreaker ==
    /\ FailureCounting
    /\ [][sessionStats'.consecutiveFailures < sessionStats.consecutiveFailures
            => \/ \E c \in Callers : ItemSucceeds(c)
               \/ BreakerResetStep]_vars

\* The answers resp fail with the execution-context error on the first
\* attempt, or the first two, and then give the answer good.
RetriedThenGood(resp, good) ==
    \E k \in 2 .. maxRetries :
       /\ resp[k] = good
       /\ \A j \in 1 .. k - 1 : resp[j] = ContextError

\* The answers resp give the answer good at once or after such retries.
GoodWithin(resp, good) ==
    resp[1] = good \/ RetriedThenGood(resp, good)

\* C21: when isRegisteredUser or addParticipants fails with the
\* execution-context error on attempt 1 or 2 and succeeds on a later one,
\* the item is added and not recorded as failed; a phase fails the item
\* with a provider error only after its third failed attempt.
C21_TransientRetried ==
    probe.op = "saveContactThenAdd" /\ probe.done
    /\ validatePhoneNumber(probe.number).isValid =>
       /\ /\ GoodWithin(probe.reg, "true")
          /\ probe.contact[1] = "ok"
          /\ GoodWithin(probe.add, "ok")
          /\ RetriedThenGood(probe.reg, "true") \/ RetriedThenGood(probe.add, "ok")
          => probe.out.ok
       /\ ~probe.out.ok /\ probe.out.error # <<"Number not registered on WhatsApp">>
          => maxRetries \in
                {probe.out.regCalls, probe.out.contactCalls, probe.out.addCalls}

\* The step records a failed item of c's request whose error is not
\* ban-indicative.
PlainFailure(c) ==
    /\ ItemFails(c)
    /\ ~isBanRelated(call'[c].results.details[Len(call'[c].results.details)].reason)

\* The step ends the break that follows a failed item of c's request.
BreakEnds(c) ==
    /\ call[c].pc = "failureBreak"
    /\ call'[c].req = call[c].req
    /\ call'[c].pc # "failureBreak"

\* The loop of c's request has gone on: it is at a later await, it has given
\* a further item its result entry, or it has run to the end.
GoesOn(c) ==
    \/ call'[c].pc \in LoopPcs
    \/ Len(call'[c].results.details) > Len(call[c].results.details)
    \/ call'[c].ret = "Completed"

\* A failed item whose error is not ban-indicative is recorded in the
\* failure map and counted, and the request takes the break after a failure.
PlainFailureRecorded ==
    [][\A c \in Callers :
         PlainFailure(c) =>
            LET number == call[c].numbers[call[c].i + 1]
            IN /\ sessionStats'.consecutiveFailures =
                     sessionStats.consecutiveFailures + 1
               /\ FormattedNumber(number) \in DOMAIN sessionStats'.failedNumbers
               /\ disk'.failed = <<sessionStats'.failedNumbers>>
               /\ call'[c].pc = "failureBreak"]_vars

\* C22 as stated: after a failed item whose error is not ban-indicative the
\* failure is recorded and counted and the loop goes on to the next item.
C22_FailureNeverAborts ==
    /\ PlainFailureRecorded
    /\ [][\A c \in Callers : BreakEnds(c) => GoesOn(c)]_vars

\* C22: after a failed item whose error is not ban-indicative the failure
\* is recorded and counted, and the loop goes on to the next item unless
\* consecutiveFailures has reached failureThreshold: then the breaker trips
\* and the request ends without success and without a further item.
C22_FailureContinues ==
    /\ PlainFailureRecorded
    /\ [][\A c \in Callers :
            BreakEnds(c) =>
               IF sessionStats.consecutiveFailures >= failureThreshold
               THEN /\ ~GoesOn(c)
                    /\ ~call'[c].results.success
                    /\ sessionStats'.circuitBreakerTripped
               ELSE GoesOn(c)]_vars

\* The first item of a request has failed with an error that is not
\* ban-indicative, and the second item is being attempted.
C22_Witness ==
    /\ call["A"].pc = "item"
    /\ Len(call["A"].attempted) = 2
    /\ Len(call["A"].results.details) = 1
    /\ call["A"].results.details[1].status = "failed"
    /\ ~isBanRelated(call["A"].results.details[1].reason)
    /\ sessionStats.consecutiveFailures >= 1

\* C23: a request whose loop has run to the end has returned success =
\* true, whether or not the greeting message could be delivered, and the
\* batch record is cleared: no items, cursor 0, no group identifier, no
\* batch file, also after the save of the finally block and every later
\* save up to the next request.
C23_CompletionClears ==
    \A c \in Callers :
       call[c].ret = "Completed" =>
          /\ call[c].results.success
          /\ sessionStats.currentBatch = <<>>
          /\ sessionStats.currentBatchIndex = 0
          /\ sessionStats.lastGroupId = NullGroup
          /\ disk.batch = <<>>

\* The batch [b, x] with a greeting message has run to the end with b
\* added, so that the message was sent, and the batch record is gone.
C23_Witness ==
    /\ call["A"].ret = "Completed"
    /\ call["A"].results.added = 1
    /\ Len(call["A"].results.details) = 2
    /\ call["A"].results.details[2].number = "x"
    /\ sessionStats.currentBatch = <<>>
    /\ disk.batch = <<>>

\* The failures recorded for the identifier id since the last clear.
FailuresOf(id) == SelectSeq(probe.log, LAMBDA e : e.id = id)

\* C24: after any sequence of recorded failures since the last clear, an
\* identifier has a record exactly when a failure was recorded for it; the
\* record's count is the number of those failures, its reason and
\* lastFailure are those of the latest and its firstFailure that of the
\* first; the failures file holds the same records.
C24_FailureUpsert ==
    probe.op = "failures" =>
       /\ \A n \in FlakyNumbers :
             LET id == FormattedNumber(n)
                 f == FailuresOf(id)
             IN IF f = <<>> THEN id \notin DOMAIN sessionStats.failedNumbers
                ELSE /\ id \in DOMAIN sessionStats.failedNumbers
                     /\ sessionStats.failedNumbers[id] =
                           [count |-> Len(f),
                            firstFailure |-> f[1].at,
                            lastFailure |-> f[Len(f)].at,
                            reason |-> f[Len(f)].reason]
       /\ DOMAIN sessionStats.failedNumbers \subseteq
             {FormattedNumber(n) : n \in FlakyNumbers}
       /\ Cardinality(getFailedNumbers(sessionStats)) =
             Cardinality(DOMAIN sessionStats.failedNumbers)
       /\ probe.log # <<>> => disk.failed = <<sessionStats.failedNumbers>>

\* b has failed three times, at different times and for different reasons.
C24_Witness ==
    /\ probe.op = "failures"
    /\ Len(FailuresOf(FormattedNumber("b"))) = 3
    /\ probe.log[1].at < probe.log[3].at
    /\ probe.log[1].reason # probe.log[3].reason
    /\ sessionStats.failedNumbers[FormattedNumber("b")].count = 3

\* Nothing is left of the failures: the Map and the list are empty and the
\* file is absent.
NoFailuresLeft(ss, d) ==
    /\ ss.failedNumbers = NoFailedNumbers
    /\ getFailedNumbers(ss) = {}
    /\ d.failed = <<>>

\* C25: clearFailedNumbers, called once or twice in a row in any state
\* (failures file present or absent, a batch running or not), returns true
\* each time and leaves the Map and the list of failures empty and the
\* file absent; the second call changes nothing and the first changes
\* nothing but the failures.
C25_ClearIdempotent ==
    [][ClearFailedNumbers =>
         LET once == clearFailedNumbers(sessionStats, disk)
             twice == clearFailedNumbers(once.ss, once.disk)
         IN /\ once.ret /\ twice.ret
            /\ NoFailuresLeft(once.ss, once.disk)
            /\ twice.ss = once.ss /\ twice.disk = once.disk
            /\ NoFailuresLeft(sessionStats', disk')
            /\ sessionStats' = [sessionStats EXCEPT !.failedNumbers = NoFailedNumbers]
            /\ disk' = [disk EXCEPT !.failed = <<>>]
            /\ call' = call]_vars

\* The failures were cleared after x had failed in a batch that is still
\* running.
C25_Witness ==
    /\ call["A"].pc = "item"
    /\ Len(call["A"].results.details) = 1
    /\ call["A"].results.details[1].status = "failed"
    /\ NoFailuresLeft(sessionStats, disk)

\* C27: a call of getSmartDelay leaves sessionStats (counters, breaker
\* fields, cursor, settings) and the files unchanged.
C27_DelayFrame == [][GetSmartDelay => UNCHANGED <<sessionStats, disk>>]_vars

\* A delay was computed late at night, close to the daily limit, after a
\* failure, with a longer pattern break.
C27_Witness ==
    /\ probe.op = "getSmartDelay" /\ probe.done
    /\ probe.hour = 1
    /\ sessionStats.addedToday = sessionStats.dailyLimit
    /\ sessionStats.consecutiveFailures = 1
    /\ sessionStats.patternVariation /\ probe.rnd.break = "longer"
    /\ probe.ret > 90 * 1000

\* The case of the delay bounds: the default delays, no consecutive
\* failure, an hour outside 1..4.
DefaultDelayCase ==
    /\ probe.op = "getSmartDelay" /\ probe.done
    /\ sessionStats.minDelay = 30 /\ sessionStats.maxDelay = 90
    /\ sessionStats.consecutiveFailures = 0
    /\ ~(probe.hour >= 1 /\ probe.hour <= 4)

\* C28 as stated: in that case every delay is at least 21 and at most 118
\* seconds.
C28_DelayBounds ==
    DefaultDelayCase => probe.ret >= 21 * 1000 /\ probe.ret <= 118 * 1000

\* C28: in that case every delay is at least 21 seconds; it is under 225
\* seconds while no more than 0.7 of the daily limit is used and under
\* 225 x (0.3 + addedToday / dailyLimit) seconds beyond, which is under 293
\* seconds when the daily limit is just reached.
C28_DelayBoundsWithBreak ==
    DefaultDelayCase =>
       /\ probe.ret >= 21 * 1000
       /\ IF 10 * sessionStats.addedToday > 7 * sessionStats.dailyLimit
          THEN probe.ret * 10 * sessionStats.dailyLimit
                  < 225 * 1000 * (3 * sessionStats.dailyLimit + 10 * sessionStats.addedToday)
          ELSE probe.ret < 225 * 1000
       /\ sessionStats.addedToday = sessionStats.dailyLimit => probe.ret < 293 * 1000

\* The longest delay at the daily limit, and the shortest delay.
C28_Witness ==
    /\ DefaultDelayCase
    /\ \/ probe.ret = 292 * 1000 /\ sessionStats.addedToday = sessionStats.dailyLimit
       \/ probe.ret = 21 * 1000 /\ probe.rnd.break = "shorter"

\* A state of the service without its failure records.
WithoutFailures(ss, d) ==
    [ss |-> [ss EXCEPT !.failedNumbers = NoFailedNumbers],
     disk |-> [d EXCEPT !.failed = <<>>]]

\* C26: two services that start with different failure records and get
\* the same requests and the same provider answers are, at every moment,
\* in the same state but for the failure records: each request has the
\* same admission decision (ret), the same position, the same provider
\* calls (attempted) and the same outcome per item (results), and the
\* counters, the breaker, the batch and their files agree.
C26_FailuresNeverGate ==
    probe.op = "twin" =>
       /\ call["A"] = probe.call
       /\ WithoutFailures(sessionStats, disk) = WithoutFailures(probe.ss, probe.disk)

\* A number with a failure record in the second service only has been
\* attempted a first time and failed, attempted in a second request and
\* added, and the records of the two services differ.
C26_Witness ==
    /\ probe.op = "twin"
    /\ FormattedNumber("b") \in DOMAIN probe.ss.failedNumbers
    /\ probe.ss.failedNumbers[FormattedNumber("b")].count = 3
    /\ sessionStats.failedNumbers[FormattedNumber("b")].count = 1
    /\ call["A"].ret = "Completed"
    /\ \E k \in DOMAIN probe.call.results.details :
          /\ probe.call.results.details[k].number = "b"
          /\ probe.call.results.details[k].status = "added"

\* The cursor a request for groupId starts at, given the batch file: the
\* persisted cursor when the file holds a non-empty batch of that group,
\* else 0.
StartCursor(d, groupId) ==
    IF d.batch # <<>> /\ Len(d.batch[1].currentBatch) > 0
       /\ d.batch[1].lastGroupId = groupId
    THEN d.batch[1].currentBatchIndex
    ELSE 0

\* The result entries are those of the numbers from index start on, in
\* order, one for each.
ReportedFrom(l, results, start) ==
    /\ Len(results.details) = IF start < Len(l.numbers) THEN Len(l.numbers) - start ELSE 0
    /\ \A k \in DOMAIN results.details :
          results.details[k].number = l.numbers[start + k]

AdmissionAnswers ==
    LET sameDay == sessionStats.lastDateReset = Today(now)
    IN (IF sessionStats.isAddingMembers THEN <<{"AlreadyAdding"}>> ELSE <<>>)
       \o (IF BreakerBlocks THEN <<{"Protection", "Exception"}>> ELSE <<>>)
       \o (IF sameDay /\ checkHourlyLimit(sessionStats, now)
           THEN <<{"HourlyLimit"}>> ELSE <<>>)
       \o (IF sameDay /\ sessionStats.dailyLimit - sessionStats.addedToday <= 0
           THEN <<{"DailyLimit"}>> ELSE <<>>)

\* C30: an add-members request is answered by the first of the checks
\* already-running, breaker, hourly quota, daily quota that holds, and goes
\* on to the verification of the group only when none holds; a request
\* turned away by one of the four has made no provider call (none for the
\* verification, none for an item) and leaves isAddingMembers, the batch
\* items, the cursor and the batch file as they were.
C30_AdmissionOrder ==
    [][\A c \in Callers :
         call'[c].req # call[c].req /\ call'[c].kind = "submit" =>
            /\ IF AdmissionAnswers = <<>>
               THEN call'[c].pc = "verify" /\ call'[c].ret = "none"
               ELSE /\ call'[c].pc = "idle"
                    /\ call'[c].ret \in AdmissionAnswers[1]
                    /\ call'[c].attempted = <<>>
                    /\ call'[c].results = RejectResults
                    /\ provider' = provider
                    /\ sessionStats'.isAddingMembers = sessionStats.isAddingMembers
                    /\ sessionStats'.currentBatch = sessionStats.currentBatch
                    /\ sessionStats'.currentBatchIndex = sessionStats.currentBatchIndex
                    /\ sessionStats'.lastGroupId = sessionStats.lastGroupId
                    /\ disk'.batch = disk.batch]_vars

\* A request has been turned away for the hourly quota in a state where the
\* daily quota is used up as well.
C30_Witness ==
    /\ \E c \in Callers : call[c].kind = "submit" /\ call[c].ret = "HourlyLimit"
    /\ sessionStats.lastDateReset = Today(now)
    /\ sessionStats.dailyLimit - sessionStats.addedToday <= 0
    /\ checkHourlyLimit(sessionStats, now)
    /\ ~sessionStats.isAddingMembers

\* C31: one call of saveContactThenAdd makes at most maxRetries calls of
\* isRegisteredUser and at most maxRetries of addParticipants; it calls
\* addParticipants only if its last isRegisteredUser call answered true; for
\* an invalid number it makes no provider call and for an unregistered one
\* no addParticipants call, and both fail; it always ends, either resolved
\* after an addParticipants call that succeeded or rejected with an error.
C31_TwoPhaseBound ==
    probe.op = "saveContactThenAdd" /\ probe.done =>
       LET out == probe.out
       IN /\ out.regCalls \in 0 .. maxRetries
          /\ out.addCalls \in 0 .. maxRetries
          /\ out.contactCalls \in 0 .. maxRetries
          /\ out.addCalls > 0 =>
                out.regCalls > 0 /\ probe.reg[out.regCalls] = "true"
          /\ ~validatePhoneNumber(probe.number).isValid =>
                ~out.ok /\ out.regCalls = 0 /\ out.addCalls = 0
          /\ out.regCalls > 0 /\ probe.reg[out.regCalls] = "false" =>
                ~out.ok /\ out.addCalls = 0
          /\ out.ok \in BOOLEAN
          /\ IF out.ok
             THEN out.error = <<>> /\ out.addCalls > 0
                  /\ probe.add[out.addCalls] = "ok"
             ELSE out.error # <<>>

\* Both phases took three calls: two refusals and then the good answer.
C31_Witness ==
    /\ probe.op = "saveContactThenAdd" /\ probe.done
    /\ probe.out.ok
    /\ probe.out.regCalls = maxRetries
    /\ probe.out.addCalls = maxRetries

\* The step adds to the result of c's request an entry of an item skipped
\* for the hourly limit.
HourlySkip(c) ==
    /\ call'[c].req = call[c].req
    /\ Len(call'[c].results.details) > Len(call[c].results.details)
    /\ \E k \in DOMAIN call'[c].results.details :
          /\ k > Len(call[c].results.details)
          /\ call'[c].results.details[k].status = "skipped"
          /\ call'[c].results.details[k].reason = <<"Hourly limit reached">>

\* C32: an item skipped for the hourly limit is skipped without an add
\* attempt and the request then waits for the next hour instead of ending;
\* when the wait is over the counter of the new hour is 0 and the request
\* goes on with the item after the skipped one.
C32_HourlyWaitContinues ==
    [][\A c \in Callers :
         /\ HourlySkip(c) =>
               /\ call'[c].pc = "hourlyWait"
               /\ call'[c].ret = "none"
         /\ call[c].pc = "hourlyWait" /\ call'[c].req = call[c].req
            /\ call'[c].pc # "hourlyWait" =>
               /\ call'[c].ret \in {"none", "Completed"}
               /\ call'[c].pc = "item" =>
                     call'[c].attempted[Len(call'[c].attempted)] =
                        call[c].numbers[call[c].i + 2]]_vars

\* The step makes a check of the breaker of sessionStats while it is tripped
\* and its reset time has not passed: the check of an admission or the one
\* after an item.
PendingCheck ==
    /\ sessionStats.circuitBreakerTripped
    /\ ~(now > sessionStats.circuitBreakerResetTime)
    /\ \E c \in Callers : AdmissionCheck(c) \/ LoopCheck(c)

\* The step loads a stats file whose breaker is tripped and whose reset time
\* has not passed.
PendingLoad ==
    /\ CrashRestart
    /\ disk.stats # <<>>
    /\ disk.stats[1].circuitBreakerTripped
    /\ ~(now > disk.stats[1].circuitBreakerResetTime)

\* C33: a breaker check (of an admission, after an item, of a status poll or
\* of the load at a start) that finds the breaker tripped and its reset time
\* passed leaves it untripped with consecutiveFailures = 0; one that finds
\* it tripped with the reset time not passed leaves circuitBreakerTripped,
\* circuitBreakerResetTime and consecutiveFailures as it found them (at a
\* start: the breaker as the file has it, consecutiveFailures as the new
\* process has it).
C33_LazyReset ==
    /\ [][ExpiredCheck =>
             /\ ~sessionStats'.circuitBreakerTripped
             /\ sessionStats'.consecutiveFailures = 0]_vars
    /\ [][PendingCheck =>
             /\ sessionStats'.circuitBreakerTripped
             /\ sessionStats'.circuitBreakerResetTime =
                   sessionStats.circuitBreakerResetTime
             /\ sessionStats'.consecutiveFailures =
                   sessionStats.consecutiveFailures]_vars
    /\ [][PendingLoad =>
             /\ sessionStats'.circuitBreakerTripped
             /\ sessionStats'.circuitBreakerResetTime =
                   disk.stats[1].circuitBreakerResetTime
             /\ sessionStats'.consecutiveFailures =
                   DefaultStats(now).consecutiveFailures]_vars

\* A request has been answered "protection" before the reset time, and the
\* breaker and the count of failures that tripped it are as they were.
C33_Witness ==
    /\ call["A"].ret = "Protection"
    /\ sessionStats.circuitBreakerTripped
    /\ ~(now > sessionStats.circuitBreakerResetTime)
    /\ sessionStats.consecutiveFailures >= failureThreshold

\* C34: a failed item is followed by exactly one pause: the extended break
\* when its error is ban-related, otherwise the failure break, whose length
\* failureDelay is between 90 and 300 seconds; the end of the extended break
\* is not followed by a failure break.
C34_OnePauseAfterFailure ==
    [][\A c \in Callers :
         /\ ItemFails(c) =>
               IF PlainFailure(c)
               THEN /\ call'[c].pc = "failureBreak"
                    /\ failureDelay(sessionStats') \in 90 .. 300
               ELSE call'[c].pc = "banBreak"
         /\ call[c].pc = "banBreak" /\ call'[c].req = call[c].req =>
               call'[c].pc # "failureBreak"]_vars

\* The counts of a result are those of its entries.
Accounted(r) ==
    /\ r.added + r.failed + r.skipped = Len(r.details)
    /\ r.added = Cardinality({k \in DOMAIN r.details : r.details[k].status = "added"})
    /\ r.failed = Cardinality({k \in DOMAIN r.details : r.details[k].status = "failed"})
    /\ r.skipped = Cardinality({k \in DOMAIN r.details : r.details[k].status = "skipped"})

\* The index at which the loop of l's request starts or has started.
StartOf(l) ==
    IF l.pc = "verify"
    THEN IF Len(sessionStats.currentBatch) > 0 /\ sessionStats.lastGroupId = l.groupId
         THEN sessionStats.currentBatchIndex ELSE 0
    ELSE l.startIndex

\* The results with which an admitted batch returns.
BatchRets == {"Completed", "Unexpected", "FailPause", "BanPause"}

\* C35: in every result of an admitted batch, while it runs and when it is
\* returned, added + failed + skipped is the number of entries and each
\* count is the number of entries of its kind; the entries are those of the
\* numbers from the start index on, one each, in list order, the last one
\* being that of the item the batch stopped at; and the result's added goes
\* up exactly in the steps that record an addition (addedToday and the
\* hour's count one higher).
C35_ResultAccounting ==
    /\ [](\A c \in Callers :
            /\ Accounted(call[c].results)
            /\ call[c].pc \in LoopPcs =>
                  /\ Len(call[c].results.details) \in {call[c].i - call[c].startIndex,
                                                       call[c].i - call[c].startIndex + 1}
                  /\ \A k \in DOMAIN call[c].results.details :
                        call[c].results.details[k].number =
                           call[c].numbers[call[c].startIndex + k])
    /\ [][\A c \in Callers :
            /\ call[c].pc # "idle" /\ call'[c].req = call[c].req
               /\ call'[c].ret \in BatchRets =>
                  /\ \A k \in DOMAIN call'[c].results.details :
                        call'[c].results.details[k].number =
                           call[c].numbers[StartOf(call[c]) + k]
                  /\ call'[c].ret = "Completed" =>
                        ReportedFrom(call[c], call'[c].results, StartOf(call[c]))
            /\ call'[c].req = call[c].req =>
                  /\ call'[c].results.added \in
                        {call[c].results.added, call[c].results.added + 1}
                  /\ call'[c].results.added = call[c].results.added + 1 =>
                        /\ call[c].pc = "item"
                        /\ sessionStats'.addedToday = sessionStats.addedToday + 1
                        /\ sessionStats'.hourlyAdditionCounts[HourOf(now)] =
                              sessionStats.hourlyAdditionCounts[HourOf(now)] + 1]_vars
    /\ [][sessionStats'.addedToday > sessionStats.addedToday =>
            \E c \in Callers : ItemSucceeds(c)]_vars

\* A batch has ended early with one number added and the next one skipped.
C35_Witness ==
    /\ call["A"].ret = "Unexpected"
    /\ call["A"].results.added = 1
    /\ call["A"].results.skipped = 1
    /\ Len(call["A"].results.details) = 2
    /\ call["A"].results.details[1].status = "added"

\* What a start never restores, and what it takes from the failures file
\* and the batch file.
RestartCommon ==
    /\ ~sessionStats'.isAddingMembers
    /\ sessionStats'.consecutiveFailures = 0
    /\ disk.failed # <<>> => sessionStats'.failedNumbers = disk.failed[1]
    /\ disk.batch # <<>> /\ Len(disk.batch[1].currentBatch) > 0 =>
          /\ sessionStats'.currentBatch = disk.batch[1].currentBatch
          /\ sessionStats'.currentBatchIndex = disk.batch[1].currentBatchIndex
          /\ sessionStats'.lastGroupId = disk.batch[1].lastGroupId

C37_MessageOnce ==
    [][\A c \in Callers :
         /\ call'[c].pc = "message" /\ call[c].pc # "message" =>
               /\ call'[c].req = call[c].req
               /\ call'[c].kind = "submit"
               /\ call'[c].message # ""
               /\ call'[c].i >= Len(call'[c].numbers)
               /\ call'[c].results.added > 0
               /\ ReportedFrom(call'[c], call'[c].results, StartOf(call[c]))
         /\ call[c].pc = "message" /\ call'[c].pc # "message" =>
               /\ call'[c].pc = "idle"
               /\ call'[c].ret \in {"Completed", "none"}
               /\ call'[c].ret = "Completed" => call'[c].results = call[c].results
         /\ call'[c].ret # call[c].ret
            /\ call'[c].ret \notin {"Completed", "none"} =>
               call[c].pc # "message"]_vars

\* The greeting is being sent after a batch in which b was added and x
\* failed.
C37_Witness ==
    /\ call["A"].pc = "message"
    /\ call["A"].message = "welcome"
    /\ call["A"].results.added = 1
    /\ call["A"].results.failed = 1

\* The step returns the result of c's request whose loop has run to the end
\* with at least one item skipped.
CompletesWithSkips(c) ==
    /\ call[c].pc # "idle"
    /\ call'[c].req = call[c].req
    /\ call'[c].ret = "Completed"
    /\ call'[c].results.skipped > 0

\* C38: when a request returns after its loop has run to the end with items
\* skipped, the batch record is cleared in memory and its file removed like
\* after any completion; and a resume-batch made while there is no batch
\* record (and no batch running) is answered "no batch" and attempts
\* nothing, so the skipped numbers are not attempted through it.
C38_SkippedNotKept ==
    [][\A c \in Callers :
         /\ CompletesWithSkips(c) =>
               /\ sessionStats'.currentBatch = <<>>
               /\ sessionStats'.currentBatchIndex = 0
               /\ sessionStats'.lastGroupId = NullGroup
               /\ disk'.batch = <<>>
         /\ call'[c].req # call[c].req /\ call'[c].kind = "resume"
            /\ sessionStats.currentBatch = <<>> /\ ~sessionStats.isAddingMembers =>
               /\ call'[c].ret = "NoBatch"
               /\ call'[c].pc = "idle"
               /\ call'[c].attempted = <<>>
               /\ provider' = provider]_vars

\* A batch has run to the end with one number added and the next skipped
\* for the daily limit, and no batch record is left.
C38_Witness ==
    /\ call["A"].ret = "Completed"
    /\ call["A"].results.added > 0
    /\ call["A"].results.skipped > 0
    /\ call["A"].results.details[Len(call["A"].results.details)].reason =
          <<"Daily limit reached">>
    /\ sessionStats.currentBatch = <<>>
    /\ disk.batch = <<>>

\* C39: minDelay < maxDelay before and after every configuration update;
\* an accepted update sets the delays it gives and no other, and a rejected
\* one leaves sessionStats and the files as they were.
C39_DelayOrder ==
    /\ [](probe.op = "config" => sessionStats.minDelay < sessionStats.maxDelay)
    /\ [][PostConfig =>
            IF probe'.status = 200
            THEN /\ sessionStats'.minDelay =
                       IF "minDelay" \in DOMAIN probe'.body
                       THEN probe'.body.minDelay ELSE sessionStats.minDelay
                 /\ sessionStats'.maxDelay =
                       IF "maxDelay" \in DOMAIN probe'.body
                       THEN probe'.body.maxDelay ELSE sessionStats.maxDelay
                 /\ [sessionStats' EXCEPT !.minDelay = 0, !.maxDelay = 0] =
                       [sessionStats EXCEPT !.minDelay = 0, !.maxDelay = 0]
            ELSE /\ probe'.status = 400
                 /\ sessionStats' = sessionStats
                 /\ disk' = disk]_vars

\* After the maximum was raised, a minimum above the old maximum has been
\* accepted on its own.
C39_Witness ==
    /\ probe.op = "config"
    /\ probe.status = 200
    /\ DOMAIN probe.body = {"minDelay"}
    /\ sessionStats.minDelay = 300
    /\ sessionStats.maxDelay = 600

====
